---- MODULE Spec2Model ----
(***************************************************************************)
(* Model of the website analysis pipeline of Ai_websit_agent:              *)
(*   AnalysisService         (analyzeBatch, analyzeWebsite,                *)
(*                            generateBatchSummary)                        *)
(*   WebsiteAnalysisService  (analyzeWebsite, fetchPageContent,            *)
(*                            fetchWithPuppeteer, fetchWithAxios,          *)
(*                            findPrivacyLinks, analyzePrivacyPolicy, ...) *)
(*   AIAnalysisService       (analyzeContent, parseAIResponse,             *)
(*                            normalizeScore)                              *)
(* One JavaScript thread of control runs the batch; every action below is  *)
(* the code between two awaits.  Optional values (T | undefined | null)    *)
(* are sequences of length 0 or 1.                                        *)
(***************************************************************************)
EXTENDS Integers, Sequences, FiniteSets, TLC

VARIABLES
    request,     \* BatchAnalysisRequest: urls, options, outputPath
    openai,      \* AIAnalysisService.openai !== null
    browser,     \* WebsiteAnalysisService.browser: "null", or a Browser that is
                 \* "connected" | "disconnected" | "closing" (close() called, the
                 \* connection still up) | "closed" (close() called, connection gone)
    page,        \* page acquired by the running fetchWithPuppeteer call and not yet
                 \* given to page.close(): "none" | "open"
    batch,       \* frame of analyzeBatch: pc, i, results, successfulAnalyses, response
    site,        \* frames of the two analyzeWebsite methods: apc, wpc, mainPageContent,
                 \* websiteInfo, ret
    fetch,       \* frame of fetchPageContent: pc, target, attempt, maxRetries, pending, ret
    inflight,    \* history: awaited operations that have started and not yet settled
    batchLog,    \* history: start / end / delay events of the batch run
    siteLog,     \* history: fetchPageContent and summarizer calls of the current site
    fetchTrace,  \* history: attempts and waits of the current fetchPageContent call
    invoked,     \* frame of a method that is called on its own: arg, ret
    peer         \* frame of a fetchPageContent call that another caller of the
                 \* service makes while the batch runs: f, page, trace

\* the state a batch run works on
pipeline == <<request, openai, browser, page, batch, site, fetch,
              inflight, batchLog, siteLog, fetchTrace>>

vars == <<pipeline, invoked, peer>>

----------------------------------------------------------------------------
(* Bounds of the model *)

MaxUrls == 3
MaxOptRetries == 2
MaxLongUrls == 7
MaxRawScore == 12
MaxAnchors == 2
MaxWords == 3
MaxMatches == 7
MaxSections == 2
MaxEnvRetries == 4

(* Program constants *)

DefaultMaxRetries == 3
BackoffUnit == 1000
TopCompaniesCap == 5
DefaultScore == 5
MinScore == 1
MaxScore == 10
EmailCap == 5
PhoneCap == 5
AddressCap == 3
MinAboutText == 50
MaxDescription == 1000

None == <<>>
Some(x) == <<x>>

\* slip: the list of names is not cut
Slice_NoCap(s, n) == s

\* Array.prototype.slice(0, n)
Slice(s, n) == IF Len(s) <= n THEN s ELSE SubSeq(s, 1, n)

\* no method is called on its own during a batch run
NotInvoked == [arg |-> None, ret |-> None]

----------------------------------------------------------------------------
(* Pages: what the extraction code can see of a markup.                    *)
(*   nonEmpty : the markup string is not "" (truthy in JavaScript)         *)
(*   title    : text of <title> after trim and suffix stripping            *)
(*   anchors  : the a[href] elements in document order; matches is the set *)
(*              of categories whose pattern list matches href or text      *)
(*   text     : the words of the plain text, in document order            *)
(*   matches  : what text.match finds for the email, phone and address    *)
(*              patterns, in document order                                *)
(*   meta     : content of the description meta tag (standard, else        *)
(*              Open Graph), None without one                              *)
(*   sections : the div and section elements in document order; about     *)
(*              tells whether class or id mentions about, company, mission *)
(*              or vision, length is the length of the trimmed text        *)
(* A text taken from the markup is the element it is from (the position   *)
(* of the section, 0 for the meta tag) and its length.                     *)

Anchor(href, footer, matches, resolvable) ==
    [href |-> href, footer |-> footer, matches |-> matches, resolvable |-> resolvable]

NoMatches == [email |-> <<>>, phone |-> <<>>, address |-> <<>>]

MkPage(nonEmpty, title, anchors, text) ==
    [nonEmpty |-> nonEmpty, title |-> title, anchors |-> anchors, text |-> text,
     matches |-> NoMatches, meta |-> None, sections |-> <<>>]

Section(about, length) == [about |-> about, length |-> length]

TextOf(from, length) == [from |-> from, length |-> length]

EmptyPage == MkPage(FALSE, "", <<>>, <<>>)
NoLinksPage == MkPage(TRUE, "Plain", <<>>, <<"Welcome">>)
LinksPage ==
    MkPage(TRUE, "Acme",
           <<Anchor("/trust", FALSE, {"trust"}, TRUE),
             Anchor("/pp", TRUE, {"privacy"}, TRUE),
             Anchor("/terms", TRUE, {"terms"}, TRUE)>>,
           <<"Welcome">>)
PrivacyOnlyPage ==
    MkPage(TRUE, "Globex", <<Anchor("/pp", FALSE, {"privacy"}, TRUE)>>, <<"Welcome">>)
BadLinkPage ==
    MkPage(TRUE, "Bad", <<Anchor("http://[privacy", FALSE, {"privacy"}, FALSE)>>, <<>>)
PolicyPage == MkPage(TRUE, "Policy", <<>>, <<"We", "Collect", "GDPR">>)
TrustPage == MkPage(TRUE, "Trust", <<>>, <<"Encryption", "secure", "compliance">>)

\* the markups any.example may answer with
AnyPages == {EmptyPage, LinksPage, BadLinkPage, PolicyPage}

----------------------------------------------------------------------------
(* URLs.  An input url is a host with or without a scheme; a resolved url  *)
(* is a host and a path.                                                   *)

InputUrl(scheme, host) == [scheme |-> scheme, host |-> host]

\* normalizeUrl: prepend https:// unless the url starts with http:// or https://
normalizeUrl(url) ==
    IF url.scheme # "http" /\ url.scheme # "https"
    THEN [scheme |-> "https", host |-> url.host, path |-> "/"]
    ELSE [scheme |-> url.scheme, host |-> url.host, path |-> "/"]

\* new URL(href, baseUrl) succeeds
CanResolve(anchor) == anchor.resolvable

\* new URL(href, baseUrl).href
ResolveUrl(href, baseUrl) == [scheme |-> baseUrl.scheme, host |-> baseUrl.host, path |-> href]

----------------------------------------------------------------------------
(* Extraction from the main page *)

\* extractCompanyName: the stripped title, else (no heading or og:title in
\* the pages of this model) the literal fallback
extractCompanyName(html) ==
    IF html.title # "" THEN html.title ELSE "Unknown Company"

\* Set.prototype.add for every element: a new value goes to the end
RECURSIVE AddAll(_, _)
AddAll(members, values) ==
    IF values = <<>> THEN members
    ELSE AddAll(IF \E j \in 1 .. Len(members) : members[j] = Head(values)
                THEN members
                ELSE Append(members, Head(values)),
                Tail(values))

\* slip: the matches are not deduplicated
NewSet_NoDedup(values) == values

\* [...new Set(values)]
NewSet(values) == AddAll(<<>>, values)

\* text.match(regex) is null without a match, and the field stays unset
ContactField(found, cap) ==
    IF found = <<>> THEN None ELSE Some(Slice(NewSet(found), cap))

extractContactInfo(html) ==
    [email |-> ContactField(html.matches.email, EmailCap),
     phone |-> ContactField(html.matches.phone, PhoneCap),
     address |-> ContactField(html.matches.address, AddressCap)]

\* /about|company|mission|vision/i.test(className + ' ' + id)
IsAboutSection(el) == el.about

\* String.prototype.substring(0, n)
substring(text, n) == [text EXCEPT !.length = IF @ > n THEN n ELSE @]

\* extractAboutInfo: the pages of this model have no h1
extractAboutInfo(html) ==
    LET aboutSections ==
            SelectSeq([j \in 1 .. Len(html.sections) |->
                          [about |-> html.sections[j].about,
                           text |-> TextOf(j, html.sections[j].length)]],
                      IsAboutSection)
    IN [title |-> Some(html.title),
        mainHeading |-> Some(""),
        description |->
            IF html.meta # None
            THEN html.meta
            ELSE IF Len(aboutSections) > 0 /\ Head(aboutSections).text.length > MinAboutText
                 THEN Some(substring(Head(aboutSections).text, MaxDescription))
                 ELSE None]

NoLinks == [privacyPolicy |-> None, trustCenter |-> None, termsOfService |-> None]

\* slip: a later matching anchor replaces the link found before
ClassifyField_LastWins(st, a, baseUrl, field, category) ==
    IF st.threw \/ category \notin a.matches
    THEN st
    ELSE IF CanResolve(a)
         THEN [st EXCEPT !.links[field] = Some(ResolveUrl(a.href, baseUrl))]
         ELSE [st EXCEPT !.threw = TRUE]

\* The body of the .each callback of both passes, for one anchor: three
\* first-match-wins checks, each resolving the href with new URL, which throws
\* on an unresolvable href.  st = [links, threw]; s is st, computed once.
ClassifyField(st, a, baseUrl, field, category) ==
    CHOOSE r \in {IF s.threw \/ s.links[field] # None \/ category \notin a.matches
                  THEN s
                  ELSE IF CanResolve(a)
                       THEN [s EXCEPT !.links[field] = Some(ResolveUrl(a.href, baseUrl))]
                       ELSE [s EXCEPT !.threw = TRUE] : s \in {st}} : TRUE

ClassifyAnchor(st, a, baseUrl) ==
    ClassifyField(
        ClassifyField(
            ClassifyField(st, a, baseUrl, "privacyPolicy", "privacy"),
            a, baseUrl, "trustCenter", "trust"),
        a, baseUrl, "termsOfService", "terms")

RECURSIVE ScanAnchors(_, _, _)
ScanAnchors(st, anchors, baseUrl) ==
    CHOOSE r \in {IF anchors = <<>> \/ s.threw
                  THEN s
                  ELSE ScanAnchors(ClassifyAnchor(s, Head(anchors), baseUrl),
                                   Tail(anchors), baseUrl) : s \in {st}} : TRUE

IsFooterAnchor(a) == a.footer

FooterPass(html, baseUrl) ==
    ScanAnchors([links |-> NoLinks, threw |-> FALSE],
                SelectSeq(html.anchors, IsFooterAnchor), baseUrl)

NeedsDocumentPass(links) ==
    links.privacyPolicy = None \/ links.trustCenter = None \/ links.termsOfService = None

DocumentPass(st, html, baseUrl) ==
    CHOOSE r \in {IF ~s.threw /\ NeedsDocumentPass(s.links)
                  THEN ScanAnchors(s, html.anchors, baseUrl)
                  ELSE s : s \in {st}} : TRUE

commonPrivacyUrls ==
    <<"/privacy", "/privacy-policy", "/privacy-statement", "/legal/privacy", "/terms/privacy">>

\* new URL(path, baseUrl) succeeds for an absolute path whenever baseUrl is a
\* valid url; baseUrl is the normalized url the main page was fetched from
BaseIsValid(baseUrl) == baseUrl.scheme \in {"http", "https"} /\ baseUrl.host # ""

RECURSIVE FirstCommonUrl(_, _)
FirstCommonUrl(paths, baseUrl) ==
    IF paths = <<>> THEN None
    ELSE IF BaseIsValid(baseUrl) THEN Some(ResolveUrl(Head(paths), baseUrl))
    ELSE FirstCommonUrl(Tail(paths), baseUrl)

\* slip: the conventional path replaces a link the anchors gave
CommonUrlFallback_Always(st, baseUrl) ==
    IF ~st.threw
    THEN [st EXCEPT !.links.privacyPolicy = FirstCommonUrl(commonPrivacyUrls, baseUrl)]
    ELSE st

\* slip: the conventional paths are not tried
CommonUrlFallback_Skipped(st, baseUrl) == st

\* "Try common privacy policy URLs if not found"
CommonUrlFallback(st, baseUrl) ==
    CHOOSE r \in {IF ~s.threw /\ s.links.privacyPolicy = None
                  THEN [s EXCEPT !.links.privacyPolicy =
                                     FirstCommonUrl(commonPrivacyUrls, baseUrl)]
                  ELSE s : s \in {st}} : TRUE

\* findPrivacyLinks: [links, threw]
findPrivacyLinks(html, baseUrl) ==
    CommonUrlFallback(DocumentPass(FooterPass(html, baseUrl), html, baseUrl), baseUrl)

----------------------------------------------------------------------------
(* Keyword signals *)

collectionKeywords == <<"collect", "gathering", "obtain", "receive", "store">>
sharingKeywords == <<"share", "transfer", "disclose", "third party", "partner">>
rightsKeywords == <<"right", "access", "delete", "modify", "opt-out", "consent">>
securityKeywords == <<"security", "encrypt", "protect", "secure", "safeguard">>
complianceKeywords == <<"gdpr", "ccpa", "california", "european", "compliance", "regulation">>

\* String.prototype.toLowerCase on the words of the model
toLowerCase(w) ==
    CASE w = "Collect" -> "collect"
      [] w = "GDPR" -> "gdpr"
      [] w = "Encryption" -> "encryption"
      [] w = "We" -> "we"
      [] w = "Welcome" -> "welcome"
      [] OTHER -> w

\* keyword is a substring of word (both lower case)
IsSubstring(keyword, word) ==
    \/ keyword = word
    \/ <<keyword, word>> \in {<<"encrypt", "encryption">>, <<"collect", "collection">>,
                              <<"secure", "insecure">>, <<"right", "copyright">>}

\* text.includes(keyword) on the lower-cased text
includes(text, keyword) ==
    \E j \in 1 .. Len(text) : IsSubstring(keyword, toLowerCase(text[j]))

\* slip: one evidence entry for every occurrence of a keyword
RECURSIVE KeywordMentions_PerOccurrence(_, _, _)
KeywordMentions_PerOccurrence(text, keywords, label) ==
    IF keywords = <<>> THEN <<>>
    ELSE LET hits == SelectSeq(text, LAMBDA w : IsSubstring(Head(keywords), toLowerCase(w)))
         IN [j \in 1 .. Len(hits) |-> <<label, Head(keywords)>>]
                \o KeywordMentions_PerOccurrence(text, Tail(keywords), label)

\* keywords.forEach(keyword => { if (text.includes(keyword)) bucket.push(...) })
RECURSIVE KeywordMentions(_, _, _)
KeywordMentions(text, keywords, label) ==
    IF keywords = <<>> THEN <<>>
    ELSE (IF includes(text, Head(keywords)) THEN <<<<label, Head(keywords)>>>> ELSE <<>>)
         \o KeywordMentions(text, Tail(keywords), label)

analyzePrivacyPolicy(html) ==
    [dataCollection |-> KeywordMentions(html.text, collectionKeywords, "Data collection"),
     dataSharing |-> KeywordMentions(html.text, sharingKeywords, "Data sharing"),
     userRights |-> KeywordMentions(html.text, rightsKeywords, "User rights"),
     securityMeasures |-> KeywordMentions(html.text, securityKeywords, "Security"),
     compliance |-> KeywordMentions(html.text, complianceKeywords, "Compliance")]

EmptyAnalysis ==
    [dataCollection |-> <<>>, dataSharing |-> <<>>, userRights |-> <<>>,
     securityMeasures |-> <<>>, compliance |-> <<>>]

\* the templated summary sentences, as the numbers they report; '' is EmptySummary
PrivacySummaryText(analysis) ==
    [found |-> TRUE,
     counts |-> <<Len(analysis.dataCollection), Len(analysis.dataSharing),
                  Len(analysis.compliance)>>]

TrustSummaryText(analysis) ==
    [found |-> TRUE,
     counts |-> <<Len(analysis.securityMeasures), Len(analysis.compliance)>>]

EmptySummary == [found |-> FALSE, counts |-> <<>>]

----------------------------------------------------------------------------
(* AI summary.  A raw score is the JSON value the summarizer put in the     *)
(* response: an integer, a decimal number (in tenths) or something else.    *)

RawInt(n) == [t |-> "int", v |-> n]
RawDec(tenths) == [t |-> "dec", v |-> tenths]
RawText == [t |-> "text", v |-> 0]

NaN == [nan |-> TRUE, n |-> 0]
Num(n) == [nan |-> FALSE, n |-> n]

\* parseInt(score, 10): an integer is itself, a decimal is truncated toward
\* zero, anything without leading digits is NaN
parseInt(score) ==
    CASE score.t = "int" -> Num(score.v)
      [] score.t = "dec" -> Num(IF score.v >= 0 THEN score.v \div 10 ELSE -((-score.v) \div 10))
      [] OTHER -> NaN

normalizeScore(score) ==
    LET num == parseInt(score)
    IN IF num.nan \/ num.n < MinScore \/ num.n > MaxScore THEN DefaultScore ELSE num.n

\* parseAIResponse, the three scores of the AIAnalysisResult
parseAIResponse(parsed) ==
    [privacyScore |-> normalizeScore(parsed.privacyScore),
     securityScore |-> normalizeScore(parsed.securityScore),
     complianceScore |-> normalizeScore(parsed.complianceScore)]

RawResponse(p, s, c) == [privacyScore |-> p, securityScore |-> s, complianceScore |-> c]

----------------------------------------------------------------------------
(* Batch summary *)

RECURSIVE SumScores(_, _)
\* analyses.reduce((sum, a) => sum + (a.aiAnalysis?.score || 0), 0)
SumScores(analyses, field) ==
    IF analyses = <<>> THEN 0
    ELSE (IF Head(analyses).aiAnalysis = None THEN 0
          ELSE Head(analyses).aiAnalysis[1][field])
         + SumScores(Tail(analyses), field)

\* Math.round((total / count) * 10) / 10, in tenths: Math.round rounds a
\* half up
RoundedAverage(total, count) == (20 * total + count) \div (2 * count)

\* slip: every successful site enters the averages
HasAiAnalysis_All(a) == TRUE

HasAiAnalysis(a) == a.aiAnalysis # None

companyNameOf(a) == a.companyName

RECURSIVE MapCompanyNames(_)
MapCompanyNames(analyses) ==
    IF analyses = <<>> THEN <<>>
    ELSE <<companyNameOf(Head(analyses))>> \o MapCompanyNames(Tail(analyses))

generateBatchSummary(analyses) ==
    LET aiAnalyses == SelectSeq(analyses, HasAiAnalysis)
        avg(field) ==
            IF Len(aiAnalyses) > 0
            THEN Some(RoundedAverage(SumScores(aiAnalyses, field), Len(aiAnalyses)))
            ELSE None
    IN [averagePrivacyScore |-> avg("privacyScore"),
        averageSecurityScore |-> avg("securityScore"),
        averageComplianceScore |-> avg("complianceScore"),
        topCompanies |-> Slice(MapCompanyNames(analyses), TopCompaniesCap)]

----------------------------------------------------------------------------
(* The world outside the program.  Four hosts answer the same way on every  *)
(* request; any.example may answer every request in every way.              *)

AnyHost == "any.example"
DownHost == "down.example"
PlainHost == "plain.example"
AcmeHost == "acme.example"
GlobexHost == "globex.example"

FixedHosts == {DownHost, PlainHost, AcmeHost, GlobexHost}

\* the page a fixed host serves at a path; None: the request fails
Served(host, path) ==
    CASE host = AcmeHost /\ path = "/" -> Some(LinksPage)
      [] host = AcmeHost /\ path = "/pp" -> Some(PolicyPage)
      [] host = AcmeHost /\ path = "/trust" -> Some(TrustPage)
      [] host = GlobexHost /\ path = "/" -> Some(PrivacyOnlyPage)
      [] host = GlobexHost /\ path = "/pp" -> Some(PolicyPage)
      [] host = PlainHost /\ path = "/" -> Some(NoLinksPage)
      [] OTHER -> None

\* what a transport call (page.goto + page.content, or axios.get) can bring:
\* Some(markup), or None when it throws
TransportOutcomes(url) ==
    IF url.host = AnyHost THEN {None} \cup {Some(p) : p \in AnyPages}
    ELSE {Served(url.host, url.path)}

\* Browser.isConnected()
isConnected(b) == b \in {"connected", "closing"}

\* browser.newPage() succeeds: never on a browser that is not connected
NewPageOutcomes(url, b) ==
    IF ~isConnected(b) THEN {FALSE}
    ELSE IF url.host = AnyHost THEN BOOLEAN ELSE {TRUE}

\* page.goto and page.content: they throw on a browser that is not connected
GotoOutcomes(url, b) ==
    IF ~isConnected(b) THEN {None} ELSE TransportOutcomes(url)

\* page.close() succeeds: never on a browser that is not connected
CloseOutcomes(url, b) ==
    IF ~isConnected(b) THEN {FALSE}
    ELSE IF url.host = AnyHost THEN BOOLEAN ELSE {TRUE}

\* what the summarizer answers for content of a host: Some(parsed JSON), or
\* None when the call throws, answers nothing or answers no JSON
SummarizerOutcomes(host) ==
    CASE host = AnyHost ->
            {None, Some(RawResponse(RawInt(8), RawInt(7), RawInt(9))),
             Some(RawResponse(RawInt(0), RawDec(79), RawText))}
      [] host = AcmeHost -> {Some(RawResponse(RawInt(8), RawInt(7), RawInt(9)))}
      [] host = GlobexHost -> {Some(RawResponse(RawInt(6), RawInt(8), RawInt(11)))}
      [] OTHER -> {None}

----------------------------------------------------------------------------
(* Frames *)

NoUrl == [scheme |-> "", host |-> "", path |-> ""]

IdleFetch ==
    [pc |-> "idle", target |-> NoUrl, attempt |-> 0, maxRetries |-> 0,
     pending |-> None, ret |-> None]

\* no other caller is fetching
IdlePeer == [f |-> IdleFetch, page |-> "none", trace |-> <<>>]

\* the WebsiteInfo literal of WebsiteAnalysisService.analyzeWebsite
NewWebsiteInfo(normalizedUrl) ==
    [companyName |-> "", mainUrl |-> normalizedUrl,
     contactInfo |-> [email |-> None, phone |-> None, address |-> None],
     aboutInfo |-> [title |-> None, mainHeading |-> None, description |-> None],
     privacyPolicyUrl |-> None, trustCenterUrl |-> None, termsOfServiceUrl |-> None,
     privacySummary |-> EmptySummary, trustSummary |-> EmptySummary,
     dataCollection |-> <<>>, dataSharing |-> <<>>, userRights |-> <<>>,
     securityMeasures |-> <<>>, compliance |-> <<>>,
     aiAnalysis |-> None]

NoResponse == [success |-> FALSE, data |-> None, error |-> None]

IdleSite ==
    [apc |-> "idle", wpc |-> "idle", mainPageContent |-> None,
     websiteInfo |-> NewWebsiteInfo(NoUrl), error |-> None, ret |-> NoResponse]

\* slip: the catch block hands out the half-built websiteInfo
FailureResponse_WithData(message) ==
    [success |-> FALSE, data |-> Some(site.websiteInfo), error |-> Some(message)]

\* the two return statements of AnalysisService.analyzeWebsite
SuccessResponse(websiteInfo) == [success |-> TRUE, data |-> Some(websiteInfo), error |-> None]

FailureResponse(message) == [success |-> FALSE, data |-> None, error |-> Some(message)]

Op(name) == [op |-> name, i |-> batch.i]

LeafOps == {"transport", "backoff", "summarize", "report", "delay"}

\* an entry of fetchTrace: the start of attempt n over a transport, its failure,
\* its success with the markup it returned, or the wait of ms after it
Event(ev, n, via, ms, markup) ==
    [ev |-> ev, n |-> n, via |-> via, ms |-> ms, markup |-> markup]

\* the attempts that the events of a trace start
AttemptsIn(trace) == Len(SelectSeq(trace, LAMBDA e : e.ev = "attempt"))

----------------------------------------------------------------------------
(* fetchPageContent *)

\* parseInt(process.env.MAX_RETRIES, 10) || 3
scrapingMaxRetries(parsed) ==
    IF parsed.nan \/ parsed.n = 0 THEN DefaultMaxRetries ELSE parsed.n

\* slip: the default is missing
EffectiveMaxRetries_NoDefault(options) == options.maxRetries

\* options.maxRetries || configService.get('scraping.maxRetries'); an unset
\* maxRetries is falsy as 0 is, and MAX_RETRIES is not set
EffectiveMaxRetries(options) ==
    IF options.maxRetries # 0 THEN options.maxRetries ELSE DefaultMaxRetries

\* slip: only the option is looked at
UsePuppeteer_NoBrowserCheck(options, b) == options.headless # "false"

\* slip: the connection of the browser is not looked at
UsePuppeteer_NoConnectedCheck(options, b) == options.headless # "false" /\ b # "null"

\* options.headless !== false && this.browser && this.browser.isConnected()
UsePuppeteer(options, b) == options.headless # "false" /\ b # "null" /\ isConnected(b)

\* the loop condition
MayAttempt(attempt, maxRetries) == attempt <= maxRetries

\* attempt === maxRetries in the catch block
IsLastAttempt(attempt, maxRetries) == attempt = maxRetries

\* slip: a constant wait instead of the linear backoff
BackoffMs_Constant(attempt) == BackoffUnit

\* delay(1000 * attempt)
BackoffMs(attempt) == BackoffUnit * attempt

\* The head of the retry loop for attempt n: select the transport and start
\* its first await, or fall out of the loop and return null.
BeginAttempt(url, n, maxRetries) ==
    IF MayAttempt(n, maxRetries)
    THEN LET via == IF UsePuppeteer(request.options, browser) THEN "puppeteer" ELSE "axios"
         IN [f |-> [pc |-> IF via = "puppeteer" THEN "newPage" ELSE "axios",
                    target |-> url, attempt |-> n, maxRetries |-> maxRetries,
                    pending |-> None, ret |-> None],
             trace |-> <<Event("attempt", n, via, 0, None)>>,
             started |-> {Op("transport")}]
    ELSE [f |-> [pc |-> "ret", target |-> url, attempt |-> n, maxRetries |-> maxRetries,
                 pending |-> None, ret |-> None],
          trace |-> <<>>,
          started |-> {}]

\* a call of fetchPageContent(url, options)
CallFetch(url) == BeginAttempt(url, 1, EffectiveMaxRetries(request.options))

\* slip: the last attempt's error is thrown on instead of returning null
Catch_Rethrow(f) ==
    IF f.attempt = f.maxRetries
    THEN [f |-> [f EXCEPT !.pc = "threw", !.ret = None, !.pending = None],
          trace |-> <<Event("fail", f.attempt, "", 0, None)>>,
          started |-> {}]
    ELSE [f |-> [f EXCEPT !.pc = "backoff", !.pending = None],
          trace |-> <<Event("fail", f.attempt, "", 0, None),
                      Event("wait", f.attempt, "", BackoffUnit * f.attempt, None)>>,
          started |-> {Op("backoff")}]

\* the catch block of the retry loop
Catch(f) ==
    IF IsLastAttempt(f.attempt, f.maxRetries)
    THEN [f |-> [f EXCEPT !.pc = "ret", !.ret = None, !.pending = None],
          trace |-> <<Event("fail", f.attempt, "", 0, None)>>,
          started |-> {}]
    ELSE [f |-> [f EXCEPT !.pc = "backoff", !.pending = None],
          trace |-> <<Event("fail", f.attempt, "", 0, None),
                      Event("wait", f.attempt, "", BackoffMs(f.attempt), None)>>,
          started |-> {Op("backoff")}]

\* return of the transport's markup from inside the try block
ReturnContent(f, content) ==
    [f |-> [f EXCEPT !.pc = "ret", !.ret = Some(content), !.pending = None],
     trace |-> <<Event("ok", f.attempt, "", 0, Some(content))>>,
     started |-> {}]

Settle(step, ended) ==
    /\ fetch' = step.f
    /\ fetchTrace' = fetchTrace \o step.trace
    /\ inflight' = (inflight \ {Op(ended)}) \cup step.started

\* await this.browser.newPage()
fetchWithPuppeteer_newPage ==
    /\ fetch.pc = "newPage"
    /\ \E ok \in NewPageOutcomes(fetch.target, browser) :
         IF ok
         THEN /\ page' = "open"
              /\ fetch' = [fetch EXCEPT !.pc = "goto"]
              /\ UNCHANGED <<fetchTrace, inflight>>
         ELSE /\ page' = page
              /\ Settle(Catch(fetch), "transport")
    /\ UNCHANGED <<invoked, peer, request, openai, browser, batch, site, batchLog, siteLog>>

\* slip: page.close() is the last statement of the try block
RunsFinally_OnReturn(outcome) == outcome # None

\* try { ... } finally { ... }: the finally block runs whether the try block
\* returned (outcome is its markup) or threw (outcome is None)
RunsFinally(outcome) == TRUE

\* page.setDefaultTimeout, await page.goto, await page.content: the try block
fetchWithPuppeteer_goto ==
    /\ fetch.pc = "goto"
    /\ \E o \in GotoOutcomes(fetch.target, browser) :
         IF RunsFinally(o)
         THEN /\ fetch' = [fetch EXCEPT !.pc = "close", !.pending = o]
              /\ UNCHANGED <<fetchTrace, inflight>>
         ELSE Settle(Catch(fetch), "transport")
    /\ UNCHANGED <<invoked, peer, request, openai, browser, page, batch, site, batchLog, siteLog>>

\* finally { await page.close() }: a throw of close replaces the pending
\* return or error.  close() rejects on a page or a connection that is gone
\* already: the page is not open after it either way.
fetchWithPuppeteer_close ==
    /\ fetch.pc = "close"
    /\ \E closed \in CloseOutcomes(fetch.target, browser) :
         /\ page' = "none"
         /\ IF closed /\ fetch.pending # None
            THEN Settle(ReturnContent(fetch, fetch.pending[1]), "transport")
            ELSE Settle(Catch(fetch), "transport")
    /\ UNCHANGED <<invoked, peer, request, openai, browser, batch, site, batchLog, siteLog>>

\* await axios.get(url, ...); return response.data
fetchWithAxios ==
    /\ fetch.pc = "axios"
    /\ \E o \in TransportOutcomes(fetch.target) :
         IF o # None
         THEN Settle(ReturnContent(fetch, o[1]), "transport")
         ELSE Settle(Catch(fetch), "transport")
    /\ UNCHANGED <<invoked, peer, request, openai, browser, page, batch, site, batchLog, siteLog>>

\* slip: the loop does not count
NextAttempt_Same(attempt) == attempt

\* attempt++
NextAttempt(attempt) == attempt + 1

\* the delay before the next attempt has passed: attempt++ and the loop head
fetchPageContent_retry ==
    /\ fetch.pc = "backoff"
    /\ Settle(BeginAttempt(fetch.target, NextAttempt(fetch.attempt), fetch.maxRetries),
              "backoff")
    /\ UNCHANGED <<invoked, peer, request, openai, browser, page, batch, site, batchLog, siteLog>>

----------------------------------------------------------------------------
(* WebsiteAnalysisService.analyzeWebsite *)

\* slip: the content is compared with null
IsFalsy_NullOnly(content) == content = None

\* !content: null or the empty string
IsFalsy(content) == content = None \/ ~content[1].nonEmpty

Call(kind, url) ==
    LET c == CallFetch(url)
    IN [f |-> c.f, trace |-> c.trace, started |-> c.started, log |-> <<"fetch " \o kind>>]

NoCall == [f |-> IdleFetch, trace |-> <<>>, started |-> {}, log |-> <<>>]

\* "Analyze trust center if found", then return websiteInfo
TrustStep(info) ==
    IF info.trustCenterUrl # None
    THEN [wpc |-> "trust", call |-> Call("trust", info.trustCenterUrl[1])]
    ELSE [wpc |-> "ret", call |-> NoCall]

\* "Analyze privacy policy if found"
PrivacyStep(info) ==
    IF info.privacyPolicyUrl # None
    THEN [wpc |-> "privacy", call |-> Call("privacy", info.privacyPolicyUrl[1])]
    ELSE TrustStep(info)

Proceed(call, ended) ==
    /\ fetch' = call.f
    /\ fetchTrace' = call.trace
    /\ siteLog' = siteLog \o call.log
    /\ inflight' = (inflight \ {Op(ended)}) \cup call.started

Returned(kind) ==
    IF fetch.ret = None THEN kind \o "=null"
    ELSE IF ~fetch.ret[1].nonEmpty THEN kind \o "=empty"
    ELSE kind \o "=content"

\* lines 79-103: the main page has been fetched
WithMainPage(info, html) ==
    CHOOSE r \in {[threw |-> found.threw,
                   info |-> [info EXCEPT !.companyName = extractCompanyName(html),
                                         !.contactInfo = extractContactInfo(html),
                                         !.aboutInfo = extractAboutInfo(html),
                                         !.privacyPolicyUrl = found.links.privacyPolicy,
                                         !.trustCenterUrl = found.links.trustCenter,
                                         !.termsOfServiceUrl = found.links.termsOfService]] :
                   found \in {findPrivacyLinks(html, info.mainUrl)}} : TRUE

analyzeWebsite_mainFetched ==
    /\ site.wpc = "main"
    /\ fetch.pc = "ret"
    /\ IF IsFalsy(fetch.ret)
       THEN /\ site' = [site EXCEPT !.wpc = "threw", !.mainPageContent = fetch.ret,
                                    !.error = Some("Failed to fetch main page content")]
            /\ Proceed([NoCall EXCEPT !.log = <<Returned("main")>>], "none")
       ELSE \E r \in {WithMainPage(site.websiteInfo, fetch.ret[1])} :
               IF r.threw
               THEN /\ site' = [site EXCEPT !.wpc = "threw", !.mainPageContent = fetch.ret,
                                            !.error = Some("Invalid URL")]
                    /\ Proceed([NoCall EXCEPT !.log = <<Returned("main")>>], "none")
               ELSE \E next \in {PrivacyStep(r.info)} :
                       /\ site' = [site EXCEPT !.wpc = next.wpc,
                                                !.mainPageContent = fetch.ret,
                                                !.websiteInfo = r.info]
                       /\ Proceed([next.call EXCEPT !.log = <<Returned("main")>> \o @], "none")
    /\ batchLog' = Append(batchLog, [ev |-> Returned("main"), i |-> batch.i])
    /\ UNCHANGED <<invoked, peer, request, openai, browser, page, batch>>

\* slip: the summary sentence is written outside the if (privacyContent) guard
WithPrivacyPage_NoGuard(info, content) ==
    IF IsFalsy(content)
    THEN [info EXCEPT !.privacySummary = PrivacySummaryText(EmptyAnalysis)]
    ELSE LET privacyAnalysis == analyzePrivacyPolicy(content[1])
         IN [info EXCEPT !.dataCollection = privacyAnalysis.dataCollection,
                         !.dataSharing = privacyAnalysis.dataSharing,
                         !.userRights = privacyAnalysis.userRights,
                         !.securityMeasures = privacyAnalysis.securityMeasures,
                         !.compliance = privacyAnalysis.compliance,
                         !.privacySummary = PrivacySummaryText(privacyAnalysis)]

\* lines 109-121
WithPrivacyPage(info, content) ==
    IF IsFalsy(content) THEN info
    ELSE LET privacyAnalysis == analyzePrivacyPolicy(content[1])
         IN [info EXCEPT !.dataCollection = privacyAnalysis.dataCollection,
                         !.dataSharing = privacyAnalysis.dataSharing,
                         !.userRights = privacyAnalysis.userRights,
                         !.securityMeasures = privacyAnalysis.securityMeasures,
                         !.compliance = privacyAnalysis.compliance,
                         !.privacySummary = PrivacySummaryText(privacyAnalysis)]

analyzeWebsite_privacyFetched ==
    /\ site.wpc = "privacy"
    /\ fetch.pc = "ret"
    /\ LET info == WithPrivacyPage(site.websiteInfo, fetch.ret)
           next == TrustStep(info)
       IN /\ site' = [site EXCEPT !.wpc = next.wpc, !.websiteInfo = info]
          /\ Proceed([next.call EXCEPT !.log = <<Returned("privacy")>> \o @], "none")
    /\ UNCHANGED <<invoked, peer, request, openai, browser, page, batch, batchLog>>

\* slip: the signals of the trust center go into the buckets as well
WithTrustPage_MergesSignals(info, content) ==
    IF IsFalsy(content) THEN info
    ELSE LET trustAnalysis == analyzePrivacyPolicy(content[1])
         IN [info EXCEPT !.securityMeasures = trustAnalysis.securityMeasures,
                         !.compliance = trustAnalysis.compliance,
                         !.trustSummary = TrustSummaryText(trustAnalysis)]

\* lines 128-134
WithTrustPage(info, content) ==
    IF IsFalsy(content) THEN info
    ELSE [info EXCEPT !.trustSummary = TrustSummaryText(analyzePrivacyPolicy(content[1]))]

analyzeWebsite_trustFetched ==
    /\ site.wpc = "trust"
    /\ fetch.pc = "ret"
    /\ site' = [site EXCEPT !.wpc = "ret",
                            !.websiteInfo = WithTrustPage(site.websiteInfo, fetch.ret)]
    /\ Proceed([NoCall EXCEPT !.log = <<Returned("trust")>>], "none")
    /\ UNCHANGED <<invoked, peer, request, openai, browser, page, batch, batchLog>>

----------------------------------------------------------------------------
(* AnalysisService.analyzeWebsite *)

\* options.useAI !== false && this.aiAnalysisService.isAvailable()
AiEnabled(options, available) == options.useAI # "false" /\ available

\* slip: the trust center is summarized whenever it was found
AiTrustStep_Always(info) ==
    IF info.trustCenterUrl # None
    THEN [apc |-> "aiTrustFetch", call |-> Call("ai trust", info.trustCenterUrl[1])]
    ELSE [apc |-> "ret", call |-> NoCall]

\* "Analyze trust center if found and no privacy policy analysis", then return
AiTrustStep(info) ==
    IF info.aiAnalysis = None /\ info.trustCenterUrl # None
    THEN [apc |-> "aiTrustFetch", call |-> Call("ai trust", info.trustCenterUrl[1])]
    ELSE [apc |-> "ret", call |-> NoCall]

\* slip: the summarizer is given the policy without a fetch of its own
AiPrivacyStep_NoRefetch(info) ==
    IF info.privacyPolicyUrl # None
    THEN [apc |-> "aiPrivacy",
          call |-> [NoCall EXCEPT !.log = <<"summarize privacy">>,
                                  !.started = {Op("summarize")}]]
    ELSE AiTrustStep(info)

\* "Analyze privacy policy if found"
AiPrivacyStep(info) ==
    IF info.privacyPolicyUrl # None
    THEN [apc |-> "aiPrivacyFetch", call |-> Call("ai privacy", info.privacyPolicyUrl[1])]
    ELSE AiTrustStep(info)

AiStep(info) ==
    IF AiEnabled(request.options, openai) THEN AiPrivacyStep(info)
    ELSE [apc |-> "ret", call |-> NoCall]

\* site' when AnalysisService.analyzeWebsite moves to apc with websiteInfo info
SiteAt(apc, info) ==
    [apc |-> apc, wpc |-> "idle", mainPageContent |-> None, websiteInfo |-> info,
     error |-> None, ret |-> IF apc = "ret" THEN SuccessResponse(info) ELSE NoResponse]

\* websiteAnalysisService.analyzeWebsite has returned or thrown
analyzeWebsite_basicDone ==
    /\ site.apc = "basic"
    /\ site.wpc \in {"ret", "threw"}
    /\ IF site.wpc = "threw"
       THEN /\ site' = [site EXCEPT !.apc = "ret", !.wpc = "idle",
                                    !.mainPageContent = None,
                                    !.ret = FailureResponse(site.error[1])]
            /\ UNCHANGED <<fetch, fetchTrace, siteLog, inflight>>
       ELSE LET next == AiStep(site.websiteInfo)
            IN /\ site' = SiteAt(next.apc, site.websiteInfo)
               /\ Proceed(next.call, "none")
    /\ UNCHANGED <<invoked, peer, request, openai, browser, page, batch, batchLog>>

\* the privacy policy has been fetched again for the summarizer
analyzeWebsite_aiPrivacyFetched ==
    /\ site.apc = "aiPrivacyFetch"
    /\ fetch.pc = "ret"
    /\ IF ~IsFalsy(fetch.ret)
       THEN /\ site' = [site EXCEPT !.apc = "aiPrivacy"]
            /\ Proceed([NoCall EXCEPT !.log = <<Returned("ai privacy"), "summarize privacy">>,
                                      !.started = {Op("summarize")}], "none")
       ELSE LET next == AiTrustStep(site.websiteInfo)
            IN /\ site' = SiteAt(next.apc, site.websiteInfo)
               /\ Proceed([next.call EXCEPT !.log = <<Returned("ai privacy")>> \o @], "none")
    /\ UNCHANGED <<invoked, peer, request, openai, browser, page, batch, batchLog>>

\* if (aiResult) websiteInfo.aiAnalysis = aiResult
WithAiResult(info, outcome) ==
    IF outcome # None
    THEN [info EXCEPT !.aiAnalysis = Some(parseAIResponse(outcome[1]))]
    ELSE info

\* aiAnalysisService.analyzePrivacyPolicy has settled
analyzeWebsite_aiPrivacyAnalyzed ==
    /\ site.apc = "aiPrivacy"
    /\ \E outcome \in SummarizerOutcomes(site.websiteInfo.mainUrl.host) :
         LET info == WithAiResult(site.websiteInfo, outcome)
             next == AiTrustStep(info)
         IN /\ site' = SiteAt(next.apc, info)
            /\ Proceed(next.call, "summarize")
    /\ UNCHANGED <<invoked, peer, request, openai, browser, page, batch, batchLog>>

\* the trust center has been fetched again for the summarizer
analyzeWebsite_aiTrustFetched ==
    /\ site.apc = "aiTrustFetch"
    /\ fetch.pc = "ret"
    /\ IF ~IsFalsy(fetch.ret)
       THEN /\ site' = [site EXCEPT !.apc = "aiTrust"]
            /\ Proceed([NoCall EXCEPT !.log = <<Returned("ai trust"), "summarize trust">>,
                                      !.started = {Op("summarize")}], "none")
       ELSE /\ site' = SiteAt("ret", site.websiteInfo)
            /\ Proceed([NoCall EXCEPT !.log = <<Returned("ai trust")>>], "none")
    /\ UNCHANGED <<invoked, peer, request, openai, browser, page, batch, batchLog>>

\* aiAnalysisService.analyzeTrustCenter has settled
analyzeWebsite_aiTrustAnalyzed ==
    /\ site.apc = "aiTrust"
    /\ \E outcome \in SummarizerOutcomes(site.websiteInfo.mainUrl.host) :
         /\ site' = SiteAt("ret", WithAiResult(site.websiteInfo, outcome))
         /\ Proceed(NoCall, "summarize")
    /\ UNCHANGED <<invoked, peer, request, openai, browser, page, batch, batchLog>>

----------------------------------------------------------------------------
(* AnalysisService.analyzeBatch *)

\* slip: the loop stops at the first failed entry
HasNext_StopOnFailure(i, urls) ==
    i < Len(urls) /\ \A k \in 1 .. Len(batch.results) : batch.results[k].success

\* i < urls.length
HasNext(i, urls) == i < Len(urls)

\* slip: the delay also follows the last url
NeedsDelay_Always(i, urls) == i < Len(urls)

\* i < urls.length - 1
NeedsDelay(i, urls) == i < Len(urls) - 1

\* result.success && result.data
IsSuccessful(result) == result.success /\ result.data # None

\* successful: successfulAnalyses.length
SuccessfulCount(urls, successfulAnalyses) == Len(successfulAnalyses)

\* slip: failed copies the expression of successful
FailedCount_CopyPaste(urls, successfulAnalyses) == Len(successfulAnalyses)

\* failed: urls.length - successfulAnalyses.length
FailedCount(urls, successfulAnalyses) == Len(urls) - Len(successfulAnalyses)

\* the returned BatchAnalysisResponse
BatchResponse(urls, results, successfulAnalyses) ==
    [total |-> Len(urls),
     successful |-> SuccessfulCount(urls, successfulAnalyses),
     failed |-> FailedCount(urls, successfulAnalyses),
     results |-> results,
     summary |-> generateBatchSummary(successfulAnalyses)]

\* the loop may run its next iteration: every await of the previous one has settled
AtLoopHead(pc) == pc = "loop"

\* the loop head: start the analysis of urls[i], or leave the loop and return
analyzeBatch_loop ==
    /\ AtLoopHead(batch.pc)
    /\ IF HasNext(batch.i, request.urls)
       THEN LET normalizedUrl == normalizeUrl(request.urls[batch.i + 1])
                call == Call("main", normalizedUrl)
            IN /\ batch' = [batch EXCEPT !.pc = "analyze"]
               /\ site' = [IdleSite EXCEPT !.apc = "basic", !.wpc = "main",
                                           !.websiteInfo = NewWebsiteInfo(normalizedUrl)]
               /\ fetch' = call.f
               /\ fetchTrace' = call.trace
               /\ siteLog' = call.log
               /\ inflight' = inflight \cup {Op("analyze")} \cup call.started
               /\ batchLog' = Append(batchLog, [ev |-> "start", i |-> batch.i])
       ELSE /\ batch' = [batch EXCEPT !.pc = "done",
                           !.response = Some(BatchResponse(request.urls, batch.results,
                                                           batch.successfulAnalyses))]
            /\ UNCHANGED <<site, fetch, fetchTrace, siteLog, inflight,
                         batchLog>>
    /\ UNCHANGED <<invoked, peer, request, openai, browser, page>>

\* slip: the delay is started and not awaited
AfterReport_NoAwait(b) ==
    IF NeedsDelay(b.i, request.urls)
    THEN [b |-> [b EXCEPT !.pc = "loop", !.i = b.i + 1],
          started |-> {Op("delay")},
          log |-> <<[ev |-> "delay", i |-> b.i]>>]
    ELSE [b |-> [b EXCEPT !.pc = "loop", !.i = b.i + 1], started |-> {}, log |-> <<>>]

\* lines 112-116 and the loop increment
AfterReport(b) ==
    IF NeedsDelay(b.i, request.urls)
    THEN [b |-> [b EXCEPT !.pc = "delay"],
          started |-> {Op("delay")},
          log |-> <<[ev |-> "delay", i |-> b.i]>>]
    ELSE [b |-> [b EXCEPT !.pc = "loop", !.i = b.i + 1], started |-> {}, log |-> <<>>]

\* this.analyzeWebsite(url, options) has returned: lines 93-111
analyzeBatch_analyzed ==
    /\ batch.pc = "analyze"
    /\ site.apc = "ret"
    /\ LET result == site.ret
           pushed == [batch EXCEPT
                        !.results = Append(@, result),
                        !.successfulAnalyses =
                            IF IsSuccessful(result) THEN Append(@, result.data[1]) ELSE @]
           ended == [ev |-> "end", i |-> batch.i]
       IN IF IsSuccessful(result) /\ request.outputPath
          THEN /\ batch' = [pushed EXCEPT !.pc = "report"]
               /\ inflight' = (inflight \ {Op("analyze")}) \cup {Op("report")}
               /\ batchLog' = Append(batchLog, ended)
          ELSE LET next == AfterReport(pushed)
               IN /\ batch' = next.b
                  /\ inflight' = (inflight \ {Op("analyze")}) \cup next.started
                  /\ batchLog' = Append(batchLog, ended) \o next.log
    /\ site' = IdleSite
    /\ UNCHANGED <<invoked, peer, request, openai, browser, page, fetch, fetchTrace,
                   siteLog>>

\* reportGenerationService.generateReport has settled; a rejection is logged
\* and swallowed
analyzeBatch_reported ==
    /\ batch.pc = "report"
    /\ LET next == AfterReport(batch)
       IN /\ batch' = next.b
          /\ inflight' = (inflight \ {Op("report")}) \cup next.started
          /\ batchLog' = batchLog \o next.log
    /\ UNCHANGED <<invoked, peer, request, openai, browser, page, site, fetch,
                   fetchTrace, siteLog>>

\* the delay between requests has passed
analyzeBatch_delayed ==
    /\ batch.pc = "delay"
    /\ batch' = [batch EXCEPT !.pc = "loop", !.i = batch.i + 1]
    /\ inflight' = inflight \ {Op("delay")}
    /\ UNCHANGED <<invoked, peer, request, openai, browser, page, site, fetch,
                   fetchTrace, siteLog,
                   batchLog>>

----------------------------------------------------------------------------
(* The rendering engine *)

\* the browser process crashes or its connection drops
browserDisconnected ==
    /\ browser = "connected"
    /\ batch.pc # "done"
    /\ browser' = "disconnected"
    /\ UNCHANGED <<invoked, peer, request, openai, page, batch, site, fetch, inflight, batchLog,
                   siteLog, fetchTrace>>

----------------------------------------------------------------------------
(* Initial states *)

Flags == {"unset", "true", "false"}

\* useAI and headless are only ever compared with false: unset stands for true
\* as well in headless
OptionsSet ==
    [useAI : Flags, headless : {"unset", "false"}, maxRetries : 0 .. MaxOptRetries]

RECURSIVE SeqsUpTo(_, _)
SeqsUpTo(S, n) ==
    IF n = 0 THEN {<<>>}
    ELSE LET shorter == SeqsUpTo(S, n - 1)
         IN shorter \cup {Append(q, x) : q \in shorter, x \in S}

FixedUrl(host) == InputUrl(IF host = AcmeHost THEN "https" ELSE "", host)

\* no batch is running
Fresh ==
    /\ page = "none"
    /\ batch = [pc |-> "loop", i |-> 0, results |-> <<>>, successfulAnalyses |-> <<>>,
                response |-> None]
    /\ site = IdleSite
    /\ fetch = IdleFetch
    /\ inflight = {}
    /\ batchLog = <<>>
    /\ siteLog = <<>>
    /\ fetchTrace = <<>>

\* the state after construction: initializeBrowser has launched the browser
\* or failed, initializeOpenAI has found an API key or not
Start(requests) ==
    /\ request \in requests
    /\ openai \in BOOLEAN
    /\ browser \in {"null", "connected"}
    /\ Fresh
    /\ invoked = NotInvoked
    /\ peer = IdlePeer

NoRequest ==
    [urls |-> <<>>,
     options |-> [useAI |-> "unset", headless |-> "unset", maxRetries |-> 0],
     outputPath |-> FALSE]

\* a method of a service is called on its own with one of args
Invoke(args) ==
    /\ request = NoRequest
    /\ openai = TRUE
    /\ browser = "null"
    /\ Fresh
    /\ invoked \in {[arg |-> a, ret |-> None] : a \in args}
    /\ peer = IdlePeer

\* the method called on its own returns value
Return(value) ==
    /\ invoked.ret = None
    /\ invoked' = [invoked EXCEPT !.ret = Some(value)]
    /\ UNCHANGED <<pipeline, peer>>

\* one site of which every request can go every way, alone or followed by a
\* site that is down
AnyRequests ==
    [urls : {<<InputUrl("", AnyHost)>>, <<InputUrl("http", AnyHost), InputUrl("", DownHost)>>},
     options : OptionsSet,
     outputPath : BOOLEAN]

\* batches of sites that answer the same way on every request
BatchRequests ==
    [urls : SeqsUpTo({FixedUrl(h) : h \in FixedHosts}, MaxUrls),
     options : {o \in OptionsSet : o.useAI # "true" /\ o.headless = "unset"
                                   /\ o.maxRetries \in {0, 1}},
     outputPath : BOOLEAN]

\* the first n urls of a list that repeats pattern
Cycle(pattern, n) == [j \in 1 .. n |-> pattern[((j - 1) % Len(pattern)) + 1]]

LongPatterns ==
    {<<GlobexHost, AcmeHost>>,
     <<GlobexHost, DownHost, AcmeHost, AcmeHost, GlobexHost, AcmeHost, AcmeHost>>,
     <<DownHost, AcmeHost, GlobexHost>>}

\* batches longer than the cap of topCompanies
LongRequests ==
    [urls : {Cycle([j \in DOMAIN p |-> FixedUrl(p[j])], n) :
                 p \in LongPatterns, n \in 0 .. MaxLongUrls},
     options : {o \in OptionsSet : o.useAI = "unset" /\ o.headless = "unset"
                                   /\ o.maxRetries \in {1, 2}},
     outputPath : BOOLEAN]

Init == Start(AnyRequests)

InitBatch == Start(BatchRequests)

InitLong == Start(LongRequests)

Next ==
    \/ analyzeBatch_loop
    \/ analyzeBatch_analyzed
    \/ analyzeBatch_reported
    \/ analyzeBatch_delayed
    \/ analyzeWebsite_mainFetched
    \/ analyzeWebsite_privacyFetched
    \/ analyzeWebsite_trustFetched
    \/ analyzeWebsite_basicDone
    \/ analyzeWebsite_aiPrivacyFetched
    \/ analyzeWebsite_aiPrivacyAnalyzed
    \/ analyzeWebsite_aiTrustFetched
    \/ analyzeWebsite_aiTrustAnalyzed
    \/ fetchWithPuppeteer_newPage
    \/ fetchWithPuppeteer_goto
    \/ fetchWithPuppeteer_close
    \/ fetchWithAxios
    \/ fetchPageContent_retry
    \/ browserDisconnected

Spec == Init /\ [][Next]_vars

SpecBatch == InitBatch /\ [][Next]_vars

SpecLong == InitLong /\ [][Next]_vars

----------------------------------------------------------------------------
(* The service while its module is destroyed and while another caller uses  *)
(* it: cleanup() runs between the steps of the batch, and a second call of  *)
(* fetchPageContent shares the browser with the fetches of the batch.       *)

\* cleanup(): if (this.browser) { await this.browser.close(); ... }, up to the
\* await.  close() has begun; the connection is up until the process exits.
cleanup ==
    /\ browser \in {"connected", "disconnected"}
    /\ browser' = IF isConnected(browser) THEN "closing" ELSE "closed"
    /\ UNCHANGED <<invoked, peer, request, openai, page, batch, site, fetch, inflight,
                   batchLog, siteLog, fetchTrace>>

\* the browser process that close() has shut down exits: the connection drops
browserExited ==
    /\ browser = "closing"
    /\ browser' = "closed"
    /\ UNCHANGED <<invoked, peer, request, openai, page, batch, site, fetch, inflight,
                   batchLog, siteLog, fetchTrace>>

\* this.browser after the await of cleanup(): null, or the browser it was when
\* close() rejected
AfterClose(resolved) == IF resolved THEN "null" ELSE "disconnected"

\* await this.browser.close() has settled: this.browser = null
cleanup_closed ==
    /\ browser = "closed"
    /\ \E resolved \in BOOLEAN : browser' = AfterClose(resolved)
    /\ UNCHANGED <<invoked, peer, request, openai, page, batch, site, fetch, inflight,
                   batchLog, siteLog, fetchTrace>>

\* the url the other caller fetches
PeerUrl == normalizeUrl(InputUrl("", AnyHost))

PeerSettle(step, pg) ==
    peer' = [f |-> step.f, page |-> pg, trace |-> peer.trace \o step.trace]

\* the other caller calls fetchPageContent(url, options)
peer_fetchPageContent ==
    /\ peer.f.pc = "idle"
    /\ batch.pc # "done"
    /\ LET c == CallFetch(PeerUrl)
       IN peer' = [f |-> c.f, page |-> "none", trace |-> c.trace]
    /\ UNCHANGED <<pipeline, invoked>>

\* await this.browser.newPage() of the other caller
peer_fetchWithPuppeteer_newPage ==
    /\ peer.f.pc = "newPage"
    /\ \E ok \in NewPageOutcomes(peer.f.target, browser) :
         IF ok
         THEN peer' = [peer EXCEPT !.f.pc = "goto", !.page = "open"]
         ELSE PeerSettle(Catch(peer.f), peer.page)
    /\ UNCHANGED <<pipeline, invoked>>

\* the try block of the other caller
peer_fetchWithPuppeteer_goto ==
    /\ peer.f.pc = "goto"
    /\ \E o \in GotoOutcomes(peer.f.target, browser) :
         IF RunsFinally(o)
         THEN peer' = [peer EXCEPT !.f.pc = "close", !.f.pending = o]
         ELSE PeerSettle(Catch(peer.f), peer.page)
    /\ UNCHANGED <<pipeline, invoked>>

\* finally { await page.close() } of the other caller: page is its own
\* constant
peer_fetchWithPuppeteer_close ==
    /\ peer.f.pc = "close"
    /\ \E closed \in CloseOutcomes(peer.f.target, browser) :
         IF closed /\ peer.f.pending # None
         THEN PeerSettle(ReturnContent(peer.f, peer.f.pending[1]), "none")
         ELSE PeerSettle(Catch(peer.f), "none")
    /\ UNCHANGED <<pipeline, invoked>>

\* await axios.get of the other caller
peer_fetchWithAxios ==
    /\ peer.f.pc = "axios"
    /\ \E o \in TransportOutcomes(peer.f.target) :
         IF o # None
         THEN PeerSettle(ReturnContent(peer.f, o[1]), peer.page)
         ELSE PeerSettle(Catch(peer.f), peer.page)
    /\ UNCHANGED <<pipeline, invoked>>

\* the delay before the next attempt of the other caller has passed
peer_fetchPageContent_retry ==
    /\ peer.f.pc = "backoff"
    /\ PeerSettle(BeginAttempt(peer.f.target, NextAttempt(peer.f.attempt),
                               peer.f.maxRetries),
                  peer.page)
    /\ UNCHANGED <<pipeline, invoked>>

\* a batch of one site of which every request can go every way and a site
\* that is down, with the summarizer and the reports requested
EngineRequests ==
    [urls : {<<InputUrl("", AnyHost), InputUrl("", DownHost)>>},
     options : {o \in OptionsSet : o.useAI = "unset" /\ o.headless = "unset"
                                   /\ o.maxRetries = 2},
     outputPath : {TRUE}]

InitEngine == Start(EngineRequests)

NextEngine ==
    \/ Next
    \/ cleanup
    \/ browserExited
    \/ cleanup_closed
    \/ peer_fetchPageContent
    \/ peer_fetchWithPuppeteer_newPage
    \/ peer_fetchWithPuppeteer_goto
    \/ peer_fetchWithPuppeteer_close
    \/ peer_fetchWithAxios
    \/ peer_fetchPageContent_retry

SpecEngine == InitEngine /\ [][NextEngine]_vars

\* every awaited operation settles: a step of the run that can be taken is
\* taken
SpecFair == InitEngine /\ [][Next]_vars /\ WF_vars(Next)

----------------------------------------------------------------------------
(* AIAnalysisService.analyzeContent on its own: the summarizer has answered *)
(* with JSON text, of which parseAIResponse makes the AIAnalysisResult      *)

\* the score values of the JSON: integers, decimals (in tenths), other values
RawScores ==
    {RawInt(n) : n \in -1 .. MaxRawScore}
        \cup {RawDec(t) : t \in {x \in -9 .. 10 * MaxRawScore : x % 10 # 0}}
        \cup {RawText}

RawResponses ==
    UNION {{RawResponse(x, y, y), RawResponse(y, x, y), RawResponse(y, y, x)} :
               x \in RawScores, y \in {RawInt(7), RawText}}

analyzeContent == Return(parseAIResponse(invoked.arg))

InitScores == Invoke(RawResponses)

SpecScores == InitScores /\ [][analyzeContent]_vars

----------------------------------------------------------------------------
(* WebsiteAnalysisService.findPrivacyLinks on its own *)

\* a[href] elements: of each kind one inside and one outside the footer
SomeAnchors ==
    {Anchor(a.href, footer, a.matches, a.resolvable) :
        footer \in BOOLEAN,
        a \in {[href |-> "/pp", matches |-> {"privacy"}, resolvable |-> TRUE],
               [href |-> "/trust", matches |-> {"trust"}, resolvable |-> TRUE],
               [href |-> "/legal/privacy", matches |-> {"privacy", "terms"}, resolvable |-> TRUE],
               [href |-> "/about", matches |-> {}, resolvable |-> TRUE],
               [href |-> "http://[privacy", matches |-> {"privacy"}, resolvable |-> FALSE],
               [href |-> "http://[", matches |-> {}, resolvable |-> FALSE]}}

LinkCalls ==
    {[html |-> MkPage(TRUE, "Acme", anchors, <<>>),
      baseUrl |-> normalizeUrl(InputUrl("", AcmeHost))] :
        anchors \in SeqsUpTo(SomeAnchors, MaxAnchors)}

callFindPrivacyLinks == Return(findPrivacyLinks(invoked.arg.html, invoked.arg.baseUrl))

InitLinks == Invoke(LinkCalls)

SpecLinks == InitLinks /\ [][callFindPrivacyLinks]_vars

----------------------------------------------------------------------------
(* WebsiteAnalysisService.analyzePrivacyPolicy on its own *)

Vocabulary == {"Collect", "collect", "GDPR", "gdpr", "Welcome", "encryption", "copyright"}

\* markups whose text is up to MaxWords words, repeated or not
SignalCalls == {MkPage(TRUE, "Policy", <<>>, text) : text \in SeqsUpTo(Vocabulary, MaxWords)}

callAnalyzePrivacyPolicy == Return(analyzePrivacyPolicy(invoked.arg))

InitSignals == Invoke(SignalCalls)

SpecSignals == InitSignals /\ [][callAnalyzePrivacyPolicy]_vars

----------------------------------------------------------------------------
(* WebsiteAnalysisService.extractContactInfo on its own.  A match is the    *)
(* number of the string it is; which strings they are does not matter to   *)
(* the code, their order and their repetitions do.                         *)

\* the lists of up to n matches in which the strings first appear in the
\* order 1, 2, 3, ...
RECURSIVE Growths(_)
Growths(n) ==
    IF n = 0 THEN {<<>>}
    ELSE LET shorter == Growths(n - 1)
         IN shorter \cup
            UNION {{Append(q, x) : x \in 1 .. Cardinality({q[j] : j \in DOMAIN q}) + 1} :
                       q \in shorter}

\* the same lists with the strings first appearing in the opposite order
Renamed(q) == [j \in DOMAIN q |-> MaxMatches + 1 - q[j]]

MatchLists == Growths(MaxMatches) \cup {Renamed(q) : q \in Growths(MaxMatches)}

\* one family has any of the lists, the two others none or a repeated match
ContactCalls ==
    {[MkPage(TRUE, "Acme", <<>>, <<>>) EXCEPT
         !.matches = [f \in {"email", "phone", "address"} |->
                         IF f = family THEN found ELSE others]] :
        family \in {"email", "phone", "address"},
        found \in MatchLists,
        others \in {<<>>, <<1, 1>>}}

callExtractContactInfo == Return(extractContactInfo(invoked.arg))

InitContact == Invoke(ContactCalls)

SpecContact == InitContact /\ [][callExtractContactInfo]_vars

----------------------------------------------------------------------------
(* WebsiteAnalysisService.extractAboutInfo on its own *)

\* lengths of the trimmed text of a section, around the two limits
SectionLengths ==
    {0, MinAboutText - 1, MinAboutText, MinAboutText + 1, MaxDescription, MaxDescription + 1}

SomeSections == {Section(about, length) : about \in BOOLEAN, length \in SectionLengths}

\* markups with up to MaxSections div or section elements, with and without
\* a description meta tag
AboutCalls ==
    {[MkPage(TRUE, "Acme", <<>>, <<>>) EXCEPT !.meta = meta, !.sections = sections] :
        meta \in {None, Some(TextOf(0, 120))},
        sections \in SeqsUpTo(SomeSections, MaxSections)}

callExtractAboutInfo == Return(extractAboutInfo(invoked.arg))

InitAbout == Invoke(AboutCalls)

SpecAbout == InitAbout /\ [][callExtractAboutInfo]_vars

----------------------------------------------------------------------------
(* Properties *)

Count(seq, Test(_)) == Len(SelectSeq(seq, Test))

IsSuccessEntry(e) == e.success

IsDelayEvent(e) == e.ev = "delay"

\* the events of batchLog about url number i (0-based)
Logged(ev, i) == \E j \in 1 .. Len(batchLog) : batchLog[j] = [ev |-> ev, i |-> i]

InLog(entry) == \E j \in 1 .. Len(siteLog) : siteLog[j] = entry

\* C1: the returned batch response has successful + failed = total, and total
\* is the number of input urls.
C1_CountsAddUp ==
    batch.response # None =>
        LET r == batch.response[1]
        IN /\ r.successful + r.failed = r.total
           /\ r.total = Len(request.urls)

\* a batch of three with both kinds of outcome has returned
C1_Witness ==
    /\ batch.response # None
    /\ batch.response[1].successful = 2
    /\ batch.response[1].failed = 1

\* C2: one entry per url in input order; a failed analysis is an entry with
\* success = false and the batch goes on; an entry is decided by its own site
\* and is never touched again; the success entries number `successful`.
C2_EntryOf(k) ==
    LET e == batch.results[k]
    IN /\ e.success => Logged("main=content", k - 1)
       /\ e.success => /\ e.data # None
                       /\ e.data[1].mainUrl = normalizeUrl(request.urls[k])
                       /\ e.error = None
       /\ ~e.success => e.data = None /\ e.error # None

C2_EntriesInOrder ==
    /\ Len(batch.results) \in {batch.i, batch.i + 1}
    /\ Len(batch.results) <= Len(request.urls)
    /\ \A k \in 1 .. Len(batch.results) : C2_EntryOf(k)
    /\ batch.response # None =>
         /\ batch.response[1].results = batch.results
         /\ Len(batch.results) = Len(request.urls)
         /\ Count(batch.results, IsSuccessEntry) = batch.response[1].successful

C2_EntriesKept ==
    \A k \in 1 .. Len(batch.results) :
        /\ Len(batch.results') >= k
        /\ batch.results'[k] = batch.results[k]

C2_FailureIsolated == []C2_EntriesInOrder /\ [][C2_EntriesKept]_vars

\* three urls, the second failed, the first and the third succeeded
C2_Witness ==
    /\ batch.response # None
    /\ Len(batch.results) = 3
    /\ batch.results[1].success
    /\ ~batch.results[2].success
    /\ batch.results[3].success
    /\ batch.response[1].successful = 2
    /\ batch.response[1].failed = 1

\* C3: when the fetch of the main page returns null, the analysis of the
\* site returns an error without data, and neither another fetch nor a
\* summarizer call is made for the site.
C3_MainFailureIsError ==
    /\ InLog("main=null") =>
         /\ siteLog = <<"fetch main", "main=null">>
         /\ site.apc = "ret" => site.ret.success = FALSE /\ site.ret.data = None
                                /\ site.ret.error # None
    /\ \A k \in 1 .. Len(batch.results) :
         Logged("main=null", k - 1) =>
             /\ ~batch.results[k].success
             /\ batch.results[k].data = None

\* the analysis has returned after a main page fetch that used up its attempts
C3_Witness ==
    /\ InLog("main=null")
    /\ site.apc = "ret"
    /\ ~site.ret.success
    /\ request.options.maxRetries = 0

\* C4: the analysis of a site returns an error only if the fetch of the main
\* page fails: with the main page fetched it returns a SiteAnalysis whatever
\* the markup holds.
C4_ErrorOnlyIfMainFetchFails ==
    (site.apc = "ret" /\ InLog("main=content")) => site.ret.success

\* C5: a failed fetch of a sub-page is not fatal: a failed privacy-policy fetch
\* leaves the five buckets and privacySummary empty, a failed trust-center
\* fetch leaves trustSummary empty, and the analysis returns its SiteAnalysis.
C5_BucketsEmpty(info) ==
    /\ info.dataCollection = <<>>
    /\ info.dataSharing = <<>>
    /\ info.userRights = <<>>
    /\ info.securityMeasures = <<>>
    /\ info.compliance = <<>>
    /\ info.privacySummary = EmptySummary

C5_SubPageFailureNotFatal ==
    /\ InLog("privacy=null") => C5_BucketsEmpty(site.websiteInfo)
    /\ InLog("trust=null") => site.websiteInfo.trustSummary = EmptySummary
    /\ (site.apc = "ret" /\ (InLog("privacy=null") \/ InLog("trust=null"))) =>
         /\ site.ret.success
         /\ site.ret.data = Some(site.websiteInfo)

\* an analysis has returned after both sub-page fetches failed
C5_Witness ==
    /\ site.apc = "ret"
    /\ InLog("privacy=null")
    /\ InLog("trust=null")
    /\ site.ret.success

\* C6: fetchPageContent does not throw: it returns the markup of its first
\* successful attempt, or null once every attempt has failed.
C6_Failures == Count(fetchTrace, LAMBDA e : e.ev = "fail")

C6_NeverThrows ==
    /\ fetch.pc \in {"idle", "newPage", "goto", "close", "axios", "backoff", "ret"}
    /\ (fetch.pc = "ret" /\ fetch.ret = None) =>
         /\ C6_Failures = fetch.maxRetries
         /\ \A j \in 1 .. Len(fetchTrace) : fetchTrace[j].ev # "ok"
    /\ (fetch.pc = "ret" /\ fetch.ret # None) =>
         LET last == fetchTrace[Len(fetchTrace)]
         IN /\ last.ev = "ok"
            /\ last.markup = fetch.ret
            /\ last.n = C6_Failures + 1
            /\ \A j \in 1 .. Len(fetchTrace) - 1 : fetchTrace[j].ev # "ok"

\* markup returned by the third attempt, after two attempts over the rendering
\* transport failed
C6_Witness ==
    /\ fetch.pc = "ret"
    /\ fetch.ret # None
    /\ C6_Failures = 2
    /\ fetchTrace[1].via = "puppeteer"

\* C7: at most maxRetries attempts (3 by default), none after a successful
\* one; a failed attempt k that is not the last is followed by a wait of
\* 1000 ms * k and then attempt k + 1; the last attempt is followed by no wait.
C7_EventInPlace(j) ==
    LET e == fetchTrace[j]
        max == fetch.maxRetries
    IN CASE e.ev = "attempt" ->
              /\ e.n <= max
              /\ IF j = 1 THEN e.n = 1
                 ELSE fetchTrace[j - 1].ev = "wait" /\ fetchTrace[j - 1].n = e.n - 1
         [] e.ev = "ok" ->
              /\ j = Len(fetchTrace)
              /\ fetchTrace[j - 1].ev = "attempt" /\ fetchTrace[j - 1].n = e.n
         [] e.ev = "fail" ->
              /\ fetchTrace[j - 1].ev = "attempt" /\ fetchTrace[j - 1].n = e.n
              /\ IF e.n = max THEN j = Len(fetchTrace)
                 ELSE /\ j < Len(fetchTrace)
                      /\ fetchTrace[j + 1].ev = "wait"
         [] e.ev = "wait" ->
              /\ fetchTrace[j - 1].ev = "fail" /\ fetchTrace[j - 1].n = e.n
              /\ e.n < max
              /\ e.ms = 1000 * e.n
              /\ j < Len(fetchTrace) => fetchTrace[j + 1].ev = "attempt"

C7_RetryPolicy ==
    /\ fetch.pc # "idle" =>
         /\ fetch.maxRetries = (IF request.options.maxRetries = 0 THEN 3
                                ELSE request.options.maxRetries)
         /\ fetch.attempt <= fetch.maxRetries
    /\ \A j \in 1 .. Len(fetchTrace) : C7_EventInPlace(j)

\* three attempts under the default, with waits of 1000 and 2000 ms
C7_Witness ==
    /\ fetch.pc = "ret"
    /\ request.options.maxRetries = 0
    /\ Len(fetchTrace) = 8
    /\ fetchTrace[3].ms = 1000
    /\ fetchTrace[6].ms = 2000

C9_Delays ==
    LET n == Len(request.urls)
    IN /\ \A j \in 1 .. Len(batchLog) :
            /\ batchLog[j].ev = "delay" =>
                 /\ batchLog[j].i < n - 1
                 /\ batchLog[j - 1] = [ev |-> "end", i |-> batchLog[j].i]
            /\ (batchLog[j].ev = "start" /\ batchLog[j].i > 0) =>
                 batchLog[j - 1] = [ev |-> "delay", i |-> batchLog[j].i - 1]
            /\ (batchLog[j].ev = "end" /\ batchLog[j].i < n - 1) =>
                 IF j = Len(batchLog) THEN batch.pc = "report"
                 ELSE batchLog[j + 1] = [ev |-> "delay", i |-> batchLog[j].i]
       /\ batch.response # None =>
            Count(batchLog, IsDelayEvent) = (IF n = 0 THEN 0 ELSE n - 1)
       /\ (batch.pc = "delay") <=> ([op |-> "delay", i |-> batch.i] \in inflight)

\* a batch of three has returned after two delays, the first after a failure
C9_Witness ==
    /\ batch.response # None
    /\ Len(request.urls) = 3
    /\ Count(batchLog, IsDelayEvent) = 2
    /\ ~batch.results[1].success
    /\ batch.results[2].success

\* C10: each average score of the batch summary is the mean over the
\* successful sites that carry an AI summary, rounded to one decimal place
\* (8 and 6 give 7.0); all three are absent when no such site exists.
C10_Carries(e) == e.success /\ e.data # None /\ e.data[1].aiAnalysis # None

RECURSIVE C10_Total(_, _)
C10_Total(entries, field) ==
    IF entries = <<>> THEN 0
    ELSE (IF C10_Carries(Head(entries)) THEN Head(entries).data[1].aiAnalysis[1][field] ELSE 0)
         + C10_Total(Tail(entries), field)

\* tenths is total / count rounded to one decimal place
C10_IsRounded(tenths, total, count) ==
    /\ 2 * count * tenths - count <= 20 * total
    /\ 20 * total <= 2 * count * tenths + count

C10_Average(average, field) ==
    LET count == Count(batch.results, C10_Carries)
    IN IF count = 0 THEN average = None
       ELSE /\ average # None
            /\ C10_IsRounded(average[1], C10_Total(batch.results, field), count)

C10_Averages ==
    batch.response # None =>
        LET summary == batch.response[1].summary
        IN /\ C10_Average(summary.averagePrivacyScore, "privacyScore")
           /\ C10_Average(summary.averageSecurityScore, "securityScore")
           /\ C10_Average(summary.averageComplianceScore, "complianceScore")

\* privacy scores 8 and 6 average 7.0 beside a successful site without an AI
\* summary
C10_Witness ==
    /\ batch.response # None
    /\ batch.response[1].successful = 3
    /\ Count(batch.results, C10_Carries) = 2
    /\ batch.response[1].summary.averagePrivacyScore = Some(70)
    /\ batch.response[1].summary.averageSecurityScore = Some(75)

\* C11: topCompanies of the batch summary is the company names of the first
\* five successful sites in processing order, all of them when fewer than
\* five succeeded: at most five names, none of a failed site, in the order of
\* the results and not in the order of the scores.
RECURSIVE C11_SuccessfulNames(_)
C11_SuccessfulNames(entries) ==
    IF entries = <<>> THEN <<>>
    ELSE (IF Head(entries).success THEN <<Head(entries).data[1].companyName>> ELSE <<>>)
         \o C11_SuccessfulNames(Tail(entries))

C11_TopCompanyNames ==
    batch.response # None =>
        LET names == C11_SuccessfulNames(batch.results)
            top == batch.response[1].summary.topCompanies
        IN /\ Len(top) = (IF Len(names) < 5 THEN Len(names) ELSE 5)
           /\ \A j \in 1 .. Len(top) : top[j] = names[j]

\* six sites succeeded and one failed, the site with the lower scores first:
\* five names, in the order of the results
C11_Witness ==
    /\ batch.response # None
    /\ batch.response[1].successful = 6
    /\ batch.response[1].failed = 1
    /\ Len(batch.response[1].summary.topCompanies) = 5
    /\ batch.response[1].summary.topCompanies[1] = "Globex"
    /\ batch.response[1].summary.topCompanies[2] = "Acme"
    /\ batch.results[1].data[1].aiAnalysis # None
    /\ batch.results[3].data[1].aiAnalysis # None

\* C12: a site carries at most one AI summary: the summarizer is called on
\* the privacy policy first, and on the trust center only if no summary is
\* attached yet and a trust-center link exists; once a summary is attached it
\* stays and no further summarizer call is made for the site.
IsSummarizerCall(e) == e \in {"summarize privacy", "summarize trust"}

C12_CallsInOrder ==
    /\ Count(siteLog, LAMBDA e : e = "summarize privacy") <= 1
    /\ Count(siteLog, LAMBDA e : e = "summarize trust") <= 1
    /\ \A j, k \in 1 .. Len(siteLog) :
         (siteLog[j] = "summarize privacy" /\ siteLog[k] = "summarize trust") => j < k

C12_CallOnlyWithoutSummary ==
    LET info == site.websiteInfo
        calls == Count(siteLog, IsSummarizerCall)
        callsAfter == Count(siteLog', IsSummarizerCall)
    IN /\ callsAfter > calls =>
            /\ info.aiAnalysis = None
            /\ siteLog'[Len(siteLog')] = "summarize trust" => info.trustCenterUrl # None
       /\ (site.apc # "idle" /\ site'.apc # "idle" /\ info.aiAnalysis # None) =>
            /\ site'.websiteInfo.aiAnalysis = info.aiAnalysis
            /\ callsAfter = calls

C12_AtMostOneSummary == []C12_CallsInOrder /\ [][C12_CallOnlyWithoutSummary]_vars

\* the summarizer gave nothing for the privacy policy and a summary for the
\* trust center
C12_Witness ==
    /\ site.apc = "ret"
    /\ InLog("summarize privacy")
    /\ InLog("summarize trust")
    /\ site.websiteInfo.aiAnalysis # None

\* C13: the summarizer is called only when the options request AI
\* augmentation (useAI) and the summarizer is available; without the request,
\* or without the summarizer, no call is made and a successful analysis
\* carries no AI summary.
C13_SummarizerOnlyOnRequest ==
    LET requested == request.options.useAI = "true"
    IN /\ (\E j \in 1 .. Len(siteLog) : IsSummarizerCall(siteLog[j])) =>
            (requested /\ openai)
       /\ (site.apc = "ret" /\ site.ret.success /\ ~(requested /\ openai)) =>
            site.ret.data[1].aiAnalysis = None

\* C14: every score of a returned AI summary is an integer in 1..10: a score
\* of the summarizer that is outside 1..10 or not a number is replaced by 5,
\* an in-range score is kept.
C14_InRange(raw) ==
    \/ raw.t = "int" /\ 1 <= raw.v /\ raw.v <= 10
    \/ raw.t = "dec" /\ 10 <= raw.v /\ raw.v <= 100

C14_ScoreNormalized(raw, score) ==
    /\ score \in 1 .. 10
    /\ ~C14_InRange(raw) => score = 5
    /\ (C14_InRange(raw) /\ raw.t = "int") => score = raw.v

C14_ScoresNormalized ==
    invoked.ret # None =>
        \A f \in {"privacyScore", "securityScore", "complianceScore"} :
            C14_ScoreNormalized(invoked.arg[f], invoked.ret[1][f])

\* C15: findPrivacyLinks skips an anchor whose href cannot be resolved
\* against baseUrl, also when the anchor matches a category: it does not
\* raise, and it returns the links of the remaining anchors.
C15_SkipsUnresolvable ==
    invoked.ret # None =>
        LET html == invoked.arg.html
            remaining == [html EXCEPT !.anchors = SelectSeq(@, CanResolve)]
        IN /\ ~invoked.ret[1].threw
           /\ invoked.ret[1].links = findPrivacyLinks(remaining, invoked.arg.baseUrl).links

\* C16: signal extraction is presence-only: a bucket holds exactly one entry
\* for each keyword of its list that occurs in the lower-cased text, however
\* often it occurs, and none for the others, so no entry is there twice; a
\* text of 'collect' and 'gdpr' only gives dataCollection and compliance of
\* length 1 and leaves the other three buckets empty.
C16_Occurs(text, keyword) ==
    \E j \in 1 .. Len(text) : IsSubstring(keyword, toLowerCase(text[j]))

C16_Bucket(bucket, keywords, label, text) ==
    /\ \A j \in 1 .. Len(keywords) :
         C16_Occurs(text, keywords[j]) <=>
             \E k \in 1 .. Len(bucket) : bucket[k] = <<label, keywords[j]>>
    /\ \A k \in 1 .. Len(bucket) :
         \E j \in 1 .. Len(keywords) : bucket[k] = <<label, keywords[j]>>
    /\ \A k1, k2 \in 1 .. Len(bucket) : bucket[k1] = bucket[k2] => k1 = k2

C16_OnlyCollectAndGdpr(text) ==
    /\ \A j \in 1 .. Len(text) : toLowerCase(text[j]) \in {"collect", "gdpr"}
    /\ \E j \in 1 .. Len(text) : toLowerCase(text[j]) = "collect"
    /\ \E j \in 1 .. Len(text) : toLowerCase(text[j]) = "gdpr"

C16_PresenceOnly ==
    invoked.ret # None =>
        LET text == invoked.arg.text
            analysis == invoked.ret[1]
        IN /\ C16_Bucket(analysis.dataCollection, collectionKeywords, "Data collection", text)
           /\ C16_Bucket(analysis.dataSharing, sharingKeywords, "Data sharing", text)
           /\ C16_Bucket(analysis.userRights, rightsKeywords, "User rights", text)
           /\ C16_Bucket(analysis.securityMeasures, securityKeywords, "Security", text)
           /\ C16_Bucket(analysis.compliance, complianceKeywords, "Compliance", text)
           /\ C16_OnlyCollectAndGdpr(text) =>
                /\ Len(analysis.dataCollection) = 1
                /\ Len(analysis.compliance) = 1
                /\ analysis.dataSharing = <<>>
                /\ analysis.userRights = <<>>
                /\ analysis.securityMeasures = <<>>

\* 'collect' occurs twice and 'gdpr' once: one entry each
C16_Witness ==
    /\ invoked.ret # None
    /\ invoked.arg.text = <<"collect", "Collect", "GDPR">>
    /\ invoked.ret[1].dataCollection = <<<<"Data collection", "collect">>>>
    /\ invoked.ret[1].compliance = <<<<"Compliance", "gdpr">>>>
    /\ invoked.ret[1].userRights = <<>>

\* C17: extractContactInfo returns for each family the distinct matches in
\* the order of their first appearance, cut to the cap of the family (5
\* emails, 5 phones, 3 addresses): no list is longer than its cap or holds a
\* match twice, and more than 5 distinct emails give the first 5.
C17_FirstAt(found, x) ==
    CHOOSE j \in 1 .. Len(found) : found[j] = x /\ \A i \in 1 .. j - 1 : found[i] # x

C17_Family(found, field, cap) ==
    IF found = <<>> THEN field = None
    ELSE LET list == field[1]
             distinct == Cardinality({found[j] : j \in 1 .. Len(found)})
         IN /\ field # None
            /\ Len(list) = (IF distinct < cap THEN distinct ELSE cap)
            /\ \A k \in 1 .. Len(list) : \E j \in 1 .. Len(found) : found[j] = list[k]
            /\ \A k1, k2 \in 1 .. Len(list) :
                 k1 < k2 => C17_FirstAt(found, list[k1]) < C17_FirstAt(found, list[k2])
            /\ \A k \in 1 .. Len(list) : \A j \in 1 .. C17_FirstAt(found, list[k]) :
                 \E k0 \in 1 .. k : list[k0] = found[j]

C17_ContactCaps ==
    invoked.ret # None =>
        /\ C17_Family(invoked.arg.matches.email, invoked.ret[1].email, 5)
        /\ C17_Family(invoked.arg.matches.phone, invoked.ret[1].phone, 5)
        /\ C17_Family(invoked.arg.matches.address, invoked.ret[1].address, 3)

\* six distinct emails, the first of them matched twice: the first five
C17_Witness ==
    /\ invoked.ret # None
    /\ invoked.arg.matches.email = <<7, 6, 7, 5, 4, 3, 2>>
    /\ invoked.ret[1].email = Some(<<7, 6, 5, 4, 3>>)
    /\ invoked.ret[1].phone = Some(<<1>>)

\* C18: when the main page is fetched and no anchor on it matches a privacy,
\* trust or terms pattern, the returned SiteAnalysis has the three link
\* fields unset, the five buckets empty and both summaries empty.
C18_NothingToFind ==
    /\ site.wpc = "ret"
    /\ site.mainPageContent # None
    /\ \A j \in 1 .. Len(site.mainPageContent[1].anchors) :
         site.mainPageContent[1].anchors[j].matches = {}

C18_NoSignals(info) ==
    /\ info.dataCollection = <<>>
    /\ info.dataSharing = <<>>
    /\ info.userRights = <<>>
    /\ info.securityMeasures = <<>>
    /\ info.compliance = <<>>
    /\ info.privacySummary = EmptySummary

C18_NothingFound ==
    C18_NothingToFind =>
        /\ site.websiteInfo.privacyPolicyUrl = None
        /\ site.websiteInfo.trustCenterUrl = None
        /\ site.websiteInfo.termsOfServiceUrl = None
        /\ C18_NoSignals(site.websiteInfo)
        /\ site.websiteInfo.trustSummary = EmptySummary

\* C18, amended: the SiteAnalysis has the trust-center and terms links unset
\* and the privacy link set to the conventional path /privacy on the main
\* url; trustSummary is empty; the buckets and privacySummary are empty when
\* the fetch of that guessed page fails and hold its signals when it succeeds.
C18_OnlyGuessedPrivacyLink ==
    C18_NothingToFind =>
        LET info == site.websiteInfo
        IN /\ info.privacyPolicyUrl =
                Some([scheme |-> info.mainUrl.scheme, host |-> info.mainUrl.host,
                      path |-> "/privacy"])
           /\ info.trustCenterUrl = None
           /\ info.termsOfServiceUrl = None
           /\ info.trustSummary = EmptySummary
           /\ siteLog[3] = "fetch privacy"
           /\ siteLog[4] \in {"privacy=null", "privacy=empty"} => C18_NoSignals(info)
           /\ siteLog[4] = "privacy=content" =>
                info.privacySummary =
                    [found |-> TRUE,
                     counts |-> <<Len(info.dataCollection), Len(info.dataSharing),
                                  Len(info.compliance)>>]

\* a main page without anchors, and a page with signals at the guessed path
C18_Witness ==
    /\ C18_NothingToFind
    /\ siteLog = <<"fetch main", "main=content", "fetch privacy", "privacy=content">>
    /\ site.websiteInfo.dataCollection # <<>>
    /\ site.websiteInfo.compliance # <<>>

\* C19: a page acquired by fetchWithPuppeteer is released before the call
\* returns or throws, whether the navigation succeeded, timed out or failed:
\* a page is open only while the call that acquired it is in its try or
\* finally block, and none is open when no fetch is in progress.
C19_PageReleased ==
    /\ page = "open" <=> fetch.pc \in {"goto", "close"}
    /\ (fetch.pc \in {"idle", "ret", "backoff"} \/ inflight = {}) => page = "none"

\* the rendering transport could not load the site that is down, and the
\* page it had acquired from the connected browser is released
C19_Witness ==
    /\ fetch.pc = "ret"
    /\ fetch.ret = None
    /\ fetch.target.host = DownHost
    /\ fetchTrace[1].via = "puppeteer"
    /\ browser = "connected"
    /\ page = "none"

\* C20: an attempt uses the rendering transport if and only if rendering is
\* enabled in the options and the engine exists and is connected when the
\* attempt starts, and the direct transport otherwise; the choice is made
\* anew for every attempt, so the attempt after a crash of the engine uses
\* the direct transport.
C20_TransportOfAttempt ==
    fetch.pc \in {"newPage", "goto", "close", "axios"} =>
        LET last == fetchTrace[Len(fetchTrace)]
        IN /\ last.ev = "attempt"
           /\ last.n = fetch.attempt
           /\ last.via = (IF fetch.pc = "axios" THEN "axios" ELSE "puppeteer")

C20_SelectedAtAttempt ==
    (fetchTrace' # fetchTrace /\ fetchTrace' # <<>>
        /\ fetchTrace'[Len(fetchTrace')].ev = "attempt") =>
        LET rendering == request.options.headless # "false" /\ browser = "connected"
        IN fetchTrace'[Len(fetchTrace')].via = (IF rendering THEN "puppeteer" ELSE "axios")

StartsAttempt(before, after) ==
    after # before /\ after # <<>> /\ after[Len(after)].ev = "attempt"

\* C21: a rendering engine that is absent, because its creation failed at
\* service start or because cleanup has shut it down, stays absent: no step
\* creates it again, and every fetch attempt that starts while it is absent
\* uses the direct transport.
C21_StaysAbsent == browser = "null" => browser' = "null"

C21_DirectWhileAbsent ==
    browser = "null" =>
        /\ StartsAttempt(fetchTrace, fetchTrace') =>
             fetchTrace'[Len(fetchTrace')].via = "axios"
        /\ StartsAttempt(peer.trace, peer'.trace) =>
             peer'.trace[Len(peer'.trace)].via = "axios"

C21_EngineStaysAbsent == [][C21_StaysAbsent /\ C21_DirectWhileAbsent]_vars

\* the first attempt of a fetch used the rendering transport, cleanup shut the
\* engine down, and the second attempt uses the direct transport
C21_Witness ==
    /\ browser = "null"
    /\ Len(fetchTrace) >= 4
    /\ fetchTrace[1] = Event("attempt", 1, "puppeteer", 0, None)
    /\ fetchTrace[4] = Event("attempt", 2, "axios", 0, None)
    /\ fetch.pc = "axios"
    /\ peer.f.pc = "axios"


\* the categories and the field of the result each of them sets
FieldOf(category) ==
    CASE category = "privacy" -> "privacyPolicy"
      [] category = "trust" -> "trustCenter"
      [] category = "terms" -> "termsOfService"

\* positions of the anchors that match a category, in the footer or anywhere
MatchingAnchors(anchors, category, footerOnly) ==
    {j \in 1 .. Len(anchors) :
        category \in anchors[j].matches /\ (footerOnly => anchors[j].footer)}

FirstPosition(positions) == CHOOSE j \in positions : \A k \in positions : j <= k

\* the anchor the claim names for a category: the first matching one of the
\* footer, else the first matching one of the document, if there is any
SelectedAnchor(anchors, category) ==
    IF MatchingAnchors(anchors, category, TRUE) # {}
    THEN Some(anchors[FirstPosition(MatchingAnchors(anchors, category, TRUE))])
    ELSE IF MatchingAnchors(anchors, category, FALSE) # {}
         THEN Some(anchors[FirstPosition(MatchingAnchors(anchors, category, FALSE))])
         ELSE None

\* C22: for each category on its own, a returning findPrivacyLinks has
\* selected the first footer anchor in document order that matches the
\* category, and when no footer anchor matches it the first matching anchor of
\* the whole document; so a field set in the footer pass is not overwritten
\* and one anchor may set several fields.
C22_FirstMatchPerCategory ==
    (invoked.ret # None /\ ~invoked.ret[1].threw) =>
        \A category \in {"privacy", "trust", "terms"} :
            LET selected == SelectedAnchor(invoked.arg.html.anchors, category)
            IN selected # None =>
                 invoked.ret[1].links[FieldOf(category)] =
                     Some(ResolveUrl(selected[1].href, invoked.arg.baseUrl))

\* a privacy anchor outside the footer comes before a footer anchor that
\* matches privacy and terms: the footer anchor sets both fields
C22_Witness ==
    /\ invoked.ret # None
    /\ ~invoked.ret[1].threw
    /\ invoked.arg.html.anchors =
           <<Anchor("/pp", FALSE, {"privacy"}, TRUE),
             Anchor("/legal/privacy", TRUE, {"privacy", "terms"}, TRUE)>>
    /\ invoked.ret[1].links.privacyPolicy =
           Some(ResolveUrl("/legal/privacy", invoked.arg.baseUrl))
    /\ invoked.ret[1].links.termsOfService = invoked.ret[1].links.privacyPolicy
    /\ invoked.ret[1].links.trustCenter = None


\* the link the fallback guesses for a base url
C23_Guessed(baseUrl) == Some(ResolveUrl("/privacy", baseUrl))

\* C23: a returning findPrivacyLinks has privacyPolicy set to the guessed
\* /privacy of the base url if and only if no anchor of the document matched
\* the privacy patterns; a matching anchor, of the footer or not, is kept.
\* trustCenter and termsOfService are set by anchors only, and no request
\* starts while the links are classified.
C23_FallbackOnlyWhenUnset ==
    (invoked.ret # None /\ ~invoked.ret[1].threw) =>
        LET anchors == invoked.arg.html.anchors
            links == invoked.ret[1].links
        IN /\ links.privacyPolicy = C23_Guessed(invoked.arg.baseUrl)
                <=> MatchingAnchors(anchors, "privacy", FALSE) = {}
           /\ links.privacyPolicy # None
           /\ MatchingAnchors(anchors, "trust", FALSE) = {} => links.trustCenter = None
           /\ MatchingAnchors(anchors, "terms", FALSE) = {} => links.termsOfService = None
           /\ inflight = {}
           /\ fetch = IdleFetch

\* the only anchor is a trust link in the footer: privacyPolicy is the guess,
\* termsOfService stays unset
C23_Witness ==
    /\ invoked.ret # None
    /\ invoked.arg.html.anchors = <<Anchor("/trust", TRUE, {"trust"}, TRUE)>>
    /\ invoked.ret[1].links =
           [privacyPolicy |-> C23_Guessed(invoked.arg.baseUrl),
            trustCenter |-> Some(ResolveUrl("/trust", invoked.arg.baseUrl)),
            termsOfService |-> None]


\* positions of the sections that mention about, company, mission or vision
\* and have at least 50 characters of text
C24_Qualifying(sections) ==
    {j \in 1 .. Len(sections) : sections[j].about /\ sections[j].length >= 50}

\* C24: without a meta description, extractAboutInfo sets description to the
\* text, cut to 1000 characters, of the first section in document order that
\* mentions about, company, mission or vision and has at least 50 characters
\* of text, and leaves it unset only when there is no such section.
C24_FirstLongAboutSection ==
    (invoked.ret # None /\ invoked.arg.meta = None) =>
        LET sections == invoked.arg.sections
            qualifying == C24_Qualifying(sections)
            first == FirstPosition(qualifying)
        IN invoked.ret[1].description =
               IF qualifying = {} THEN None
               ELSE Some(TextOf(first,
                                IF sections[first].length > 1000 THEN 1000
                                ELSE sections[first].length))


\* the five buckets of a SiteAnalysis
C25_Buckets(info) ==
    [dataCollection |-> info.dataCollection, dataSharing |-> info.dataSharing,
     userRights |-> info.userRights, securityMeasures |-> info.securityMeasures,
     compliance |-> info.compliance]

\* the fields the trust center has no part in
C25_Kept(info) ==
    <<C25_Buckets(info), info.privacySummary, info.companyName, info.contactInfo,
      info.aboutInfo, info.privacyPolicyUrl, info.trustCenterUrl, info.termsOfServiceUrl>>

\* the trust center is being processed: fetched for its summary sentence, or
\* fetched again and summarized
C25_AtTrustCenter == site.wpc = "trust" \/ site.apc \in {"aiTrustFetch", "aiTrust"}

C25_OnlyTrustSummary ==
    /\ C25_AtTrustCenter => C25_Kept(site'.websiteInfo) = C25_Kept(site.websiteInfo)
    /\ site.wpc = "trust" =>
         site'.websiteInfo =
             [site.websiteInfo EXCEPT !.trustSummary = site'.websiteInfo.trustSummary]

C25_BucketsFromPrivacyPolicy ==
    (site.wpc = "privacy" /\ site'.wpc # "privacy") =>
        C25_Buckets(site'.websiteInfo) =
            IF IsFalsy(fetch.ret) THEN C25_Buckets(NewWebsiteInfo(NoUrl))
            ELSE analyzePrivacyPolicy(fetch.ret[1])

\* C25: processing the trust center changes trustSummary only: the buckets,
\* privacySummary, companyName, contact, about and the three links are the
\* same before and after it, whether its fetch succeeds or not, and the
\* buckets are the signals of the privacy-policy markup alone.
C25_TrustCenterFrame == [][C25_OnlyTrustSummary /\ C25_BucketsFromPrivacyPolicy]_vars

\* the privacy policy could not be fetched and the trust center could: its
\* compliance mention is counted in trustSummary and is in no bucket
C25_Witness ==
    /\ site.wpc = "ret"
    /\ siteLog = <<"fetch main", "main=content", "fetch privacy", "privacy=null",
                   "fetch trust", "trust=content">>
    /\ site.websiteInfo.trustSummary = [found |-> TRUE, counts |-> <<0, 1>>]
    /\ site.websiteInfo.compliance = <<>>
    /\ site.websiteInfo.privacySummary = EmptySummary


\* fetchPageContent has returned the empty string
C26_ReturnedEmpty == fetch.pc = "ret" /\ fetch.ret # None /\ ~fetch.ret[1].nonEmpty

\* the attempt that brought the empty markup is the last event of the call
C26_NoRetry ==
    C26_ReturnedEmpty =>
        /\ fetchTrace # <<>>
        /\ fetchTrace[Len(fetchTrace)] = Event("ok", fetch.attempt, "", 0, fetch.ret)

\* what the caller does with the empty markup is what it does with null
C26_TreatedAsFailure ==
    (C26_ReturnedEmpty /\ site' # site) =>
        /\ site.wpc = "main" =>
             /\ site'.wpc = "threw"
             /\ site'.error = Some("Failed to fetch main page content")
        /\ site.wpc \in {"privacy", "trust"} => site'.websiteInfo = site.websiteInfo
        /\ site.wpc = "privacy" => site'.wpc \in {"trust", "ret"}
        /\ site.apc \in {"aiPrivacyFetch", "aiTrustFetch"} =>
             /\ site'.websiteInfo = site.websiteInfo
             /\ site'.apc \notin {"aiPrivacy", "aiTrust"}
             /\ "summarize" \notin {op.op : op \in inflight'}

\* C26: an attempt that succeeds with empty markup is not retried, and the
\* caller treats the empty markup like a failed fetch: the analysis fails
\* for the main page, and the step is skipped for the privacy policy, the
\* trust center and the fetches of the AI step.
C26_EmptyMarkupIsFailure == []C26_NoRetry /\ [][C26_TreatedAsFailure]_vars

\* every sub-page came back empty: nothing was extracted or summarized
C26_Witness ==
    /\ site.apc = "ret"
    /\ siteLog = <<"fetch main", "main=content", "fetch privacy", "privacy=empty",
                   "fetch trust", "trust=empty", "fetch ai privacy", "ai privacy=empty",
                   "fetch ai trust", "ai trust=empty">>
    /\ site.ret.success
    /\ site.websiteInfo.privacySummary = EmptySummary
    /\ site.websiteInfo.trustSummary = EmptySummary
    /\ site.websiteInfo.aiAnalysis = None


C27_Attempts == Count(fetchTrace, LAMBDA e : e.ev = "attempt")

\* the values MAX_RETRIES can be parsed to
C27_Parsed == {NaN} \cup {Num(n) : n \in 0 .. MaxEnvRetries}

FetchOrder ==
    <<"fetch main", "fetch privacy", "fetch trust", "fetch ai privacy", "fetch ai trust">>

IsFetchCall(e) == \E r \in 1 .. Len(FetchOrder) : FetchOrder[r] = e

C28_Rank(e) == CHOOSE r \in 1 .. Len(FetchOrder) : FetchOrder[r] = e

\* the url a fetch call of a kind is made for
C28_UrlOf(e, info) ==
    CASE e = "fetch main" -> Some(info.mainUrl)
      [] e \in {"fetch privacy", "fetch ai privacy"} -> info.privacyPolicyUrl
      [] e \in {"fetch trust", "fetch ai trust"} -> info.trustCenterUrl

\* C28: the fetch calls of one site are made in the order main page, privacy
\* policy, trust center, privacy policy again, trust center again, each at
\* most once and the last only while no AI summary is attached: at most 5
\* fetch calls and 2 summarizer calls; a summarizer call directly follows the
\* successful fetch made for it; every fetch is for the main url, the privacy
\* link or the trust link, never for the terms link.
C28_FixedFetchOrder ==
    LET calls == SelectSeq(siteLog, IsFetchCall)
    IN /\ \A j, k \in 1 .. Len(calls) : j < k => C28_Rank(calls[j]) < C28_Rank(calls[k])
       /\ Len(calls) <= 5
       /\ Count(siteLog, IsSummarizerCall) <= 2
       /\ \A j \in 1 .. Len(siteLog) :
            /\ siteLog[j] = "summarize privacy" =>
                 j >= 3 /\ siteLog[j - 1] = "ai privacy=content"
                        /\ siteLog[j - 2] = "fetch ai privacy"
            /\ siteLog[j] = "summarize trust" =>
                 j >= 3 /\ siteLog[j - 1] = "ai trust=content"
                        /\ siteLog[j - 2] = "fetch ai trust"
       /\ site.apc \in {"aiTrustFetch", "aiTrust"} => site.websiteInfo.aiAnalysis = None
       /\ (site.apc # "idle" /\ fetch.pc # "idle") =>
            /\ calls # <<>>
            /\ Some(fetch.target) = C28_UrlOf(calls[Len(calls)], site.websiteInfo)
            /\ Some(fetch.target) # site.websiteInfo.termsOfServiceUrl

\* a site with a privacy, a trust and a terms link: five fetch calls, and two
\* summarizer calls of which the first gave no summary
C28_Witness ==
    /\ site.apc = "aiTrust"
    /\ SelectSeq(siteLog, IsFetchCall) = FetchOrder
    /\ Count(siteLog, IsSummarizerCall) = 2
    /\ site.websiteInfo.termsOfServiceUrl # None
    /\ site.websiteInfo.aiAnalysis = None


\* the maxRetries in force for the request
C29_MaxRetries ==
    IF request.options.maxRetries = 0 THEN DefaultMaxRetries ELSE request.options.maxRetries

\* The fetch attempts of the url that is being analyzed: a call makes at most
\* maxRetries attempts and a site at most 5 calls, so the attempts of the
\* running call and maxRetries for each call before it are at most
\* 5 * maxRetries.  The two loops stay within their limits.
C29_Bounded ==
    LET calls == Len(SelectSeq(siteLog, IsFetchCall))
    IN /\ AttemptsIn(fetchTrace) <= C29_MaxRetries
       /\ calls <= 5
       /\ calls >= 1 =>
            AttemptsIn(fetchTrace) + (calls - 1) * C29_MaxRetries <= 5 * C29_MaxRetries
       /\ fetch.attempt <= C29_MaxRetries
       /\ batch.i <= Len(request.urls)

C29_Returned ==
    /\ batch.pc = "done"
    /\ batch.response # None
    /\ batch.response[1].total = Len(request.urls)
    /\ inflight = {}

\* C29: when every awaited operation settles, analyzeBatch returns a
\* BatchResult for every finite url list, after at most 5 * maxRetries fetch
\* attempts for each url.
C29_Terminates == []C29_Bounded /\ <>C29_Returned

\* the fifth fetch call of a site has used up its attempts
C29_Witness ==
    /\ Len(SelectSeq(siteLog, IsFetchCall)) = 5
    /\ AttemptsIn(fetchTrace) = C29_MaxRetries
    /\ C29_MaxRetries = 2
    /\ fetch.pc = "ret"
    /\ fetch.ret = None


\* a frame of fetchPageContent inside fetchWithPuppeteer
C30_InFlight(f) == f.pc \in {"newPage", "goto", "close"}

\* one step of a frame whose rendering attempt is in flight while the engine
\* is not connected: the finally block is entered with the error pending, or
\* the catch block of the retry loop takes the error
C30_Fails(f, g, before, after) ==
    (C30_InFlight(f) /\ g # f /\ ~isConnected(browser)) =>
        \/ f.pc = "goto" /\ g.pc = "close" /\ g.pending = None
        \/ /\ g.pc \in {"backoff", "ret"}
           /\ g.ret = None
           /\ Len(after) > Len(before)
           /\ after[Len(before) + 1] = Event("fail", f.attempt, "", 0, None)

\* the page a frame has acquired is released by that frame's next step
C30_Releases(f, g) == (f.pc = "goto" /\ g # f) => g.pc = "close"

\* an attempt that starts while the engine is not connected is direct
C30_Direct(before, after) ==
    (~isConnected(browser) /\ StartsAttempt(before, after)) =>
        after[Len(after)].via = "axios"

\* a page is acquired and released in steps of the frame that owns it only
C30_OwnPage ==
    /\ page' # page => (peer' = peer /\ fetch.pc \in {"newPage", "close"})
    /\ peer'.page # peer.page => (fetch' = fetch /\ page' = page
                                    /\ peer.f.pc \in {"newPage", "close"})
    /\ (fetch.pc = "close" /\ fetch' # fetch) => page' = "none"
    /\ (peer.f.pc = "close" /\ peer'.f # peer.f) => peer'.page = "none"

C30_Step ==
    /\ C30_Fails(fetch, fetch', fetchTrace, fetchTrace')
    /\ C30_Fails(peer.f, peer'.f, peer.trace, peer'.trace)
    /\ C30_Releases(fetch, fetch')
    /\ C30_Releases(peer.f, peer'.f)
    /\ C30_Direct(fetchTrace, fetchTrace')
    /\ C30_Direct(peer.trace, peer'.trace)
    /\ ~isConnected(browser) => ~isConnected(browser')
    /\ C30_OwnPage

\* C30: when the engine is shut down or disconnects while rendering attempts
\* of the batch's fetch and of a concurrent fetch are in flight, each of the
\* attempts ends as a failed attempt that the retry loop catches, the page it
\* acquired is still released by it, fetchPageContent raises in neither
\* caller, the attempts they start afterwards are direct, and neither caller
\* acquires or releases the page of the other.
C30_EngineLostInFlight ==
    [](fetch.pc # "threw" /\ peer.f.pc # "threw") /\ [][C30_Step]_vars

\* the engine has gone while both callers were rendering: the concurrent
\* attempt has failed and waits for its retry, the batch's attempt is about to
\* release its page with the error pending
C30_Witness ==
    /\ browser = "closed"
    /\ fetch.pc = "close"
    /\ fetch.pending = None
    /\ page = "open"
    /\ peer.f.pc = "backoff"
    /\ peer.page = "none"
    /\ peer.trace = <<Event("attempt", 1, "puppeteer", 0, None),
                      Event("fail", 1, "", 0, None),
                      Event("wait", 1, "", BackoffMs(1), None)>>

====
